---------------------------- MODULE Spec2Model ----------------------------
(***************************************************************************)
(* SailTrade (src/src/App.jsx): the seeded world generator, the boat       *)
(* simulation step (updateBoat) and the collision detector.                *)
(*                                                                         *)
(* Numbers.  The program computes in IEEE doubles; the model computes in   *)
(* fixed point, every quantity an integer number of the units below:       *)
(*   time            1 ms                (dt = 50 is 0.05 s)               *)
(*   sail level      1/10000             (SAIL_ONE is 1.0)                 *)
(*   speed           1/1000 world unit/s (MAX_FORWARD_SPEED 260 -> 260000) *)
(*   angle, heading  1/1000 rad          (TWO_PI -> 6283)                  *)
(*   length          1/16 world unit     (MAP_SIZE 10000 -> 160000)        *)
(*   multipliers     1/1000                                                *)
(* A 32-bit word of the generator is a pair <<hi, lo>> of 16-bit halves,   *)
(* so that the integer algorithms (cyrb128, sfc32) are computed bit for    *)
(* bit.                                                                    *)
(***************************************************************************)
EXTENDS Integers, Sequences, FiniteSets, TLC

-----------------------------------------------------------------------------
(* Integer helpers *)

Abs(n) == IF n < 0 THEN -n ELSE n

Sign(n) == IF n > 0 THEN 1 ELSE IF n < 0 THEN -1 ELSE 0

Min(a, b) == IF a < b THEN a ELSE b

Max(a, b) == IF a > b THEN a ELSE b

\* a / b rounded to the nearest integer, symmetric in the sign of a (b > 0)
RDiv(a, b) == IF a >= 0 THEN (2 * a + b) \div (2 * b) ELSE -((2 * (-a) + b) \div (2 * b))

\* JavaScript's %: the remainder takes the sign of the dividend (b > 0)
JsRem(a, b) == IF a >= 0 THEN a % b ELSE -((-a) % b)

Pow2(n) == 2 ^ n

\* F(v), with v computed once
Then(v, F(_)) == CHOOSE r \in {F(c) : c \in {v}} : TRUE

\* The product a * b of two naturals below 2^30, as base-2^15 digits, most
\* significant first; BigLE compares two such products.
BigMul(a, b) ==
  LET B  == 32768
      a1 == a \div B
      a0 == a % B
      b1 == b \div B
      b0 == b % B
      p0 == a0 * b0
      s1 == a1 * b0 + a0 * b1 + (p0 \div B)
      s2 == a1 * b1 + (s1 \div B)
  IN  <<s2, s1 % B, p0 % B>>

BigLE(p, q) ==
  \/ p[1] < q[1]
  \/ p[1] = q[1] /\ p[2] < q[2]
  \/ p[1] = q[1] /\ p[2] = q[2] /\ p[3] <= q[3]

-----------------------------------------------------------------------------
(* 32-bit words as <<hi, lo>> *)

W16 == 2 ^ 16

RECURSIVE BitXor(_, _, _)
BitXor(a, b, n) ==
  IF n = 0 THEN 0
  ELSE ((a + b) % 2) + 2 * BitXor(a \div 2, b \div 2, n - 1)

Xor4 == [a \in 0..15 |-> [b \in 0..15 |-> BitXor(a, b, 4)]]

Xor16(a, b) ==
    Xor4[a \div 4096][b \div 4096] * 4096
  + Xor4[(a \div 256) % 16][(b \div 256) % 16] * 256
  + Xor4[(a \div 16) % 16][(b \div 16) % 16] * 16
  + Xor4[a % 16][b % 16]

\* x ^ y
WXor(x, y) == <<Xor16(x[1], y[1]), Xor16(x[2], y[2])>>

\* (x + y) | 0, the bits of the 32-bit sum
WAdd(x, y) ==
  LET lo == x[2] + y[2]
  IN  <<(x[1] + y[1] + (lo \div W16)) % W16, lo % W16>>

\* x >>> n, 0 < n < 32
WShr(x, n) ==
  IF n >= 16 THEN <<0, x[1] \div Pow2(n - 16)>>
  ELSE <<x[1] \div Pow2(n), (x[1] % Pow2(n)) * Pow2(16 - n) + (x[2] \div Pow2(n))>>

\* x << n, 0 < n < 32, the low 32 bits
WShl(x, n) ==
  IF n >= 16 THEN <<(x[2] % Pow2(32 - n)) * Pow2(n - 16), 0>>
  ELSE <<(x[1] % Pow2(16 - n)) * Pow2(n) + (x[2] \div Pow2(16 - n)),
         (x[2] % Pow2(16 - n)) * Pow2(n)>>

\* the 32-bit product of two 16-bit numbers
Mul16(x, y) ==
  LET p1  == x * (y \div 256)
      p0  == x * (y % 256)
      low == (p1 % 256) * 256 + p0
  IN  <<(p1 \div 256) + (low \div W16), low % W16>>

\* Math.imul(x, k) >>> 0
Imul(x, k) ==
  LET ll == Mul16(x[2], k[2])
  IN  <<(ll[1] + Mul16(x[1], k[2])[2] + Mul16(x[2], k[1])[2]) % W16, ll[2]>>

-----------------------------------------------------------------------------
(* Seeds and the seeded generator: cyrb128, sfc32, createSeededRng *)

\* A string is the sequence of its UTF-16 code units.
IsSpace(ch) == ch \in {9, 10, 11, 12, 13, 32, 160}

RECURSIVE TrimStart(_)
TrimStart(str) ==
  IF str # <<>> /\ IsSpace(Head(str)) THEN TrimStart(Tail(str)) ELSE str

RECURSIVE TrimEnd(_)
TrimEnd(str) ==
  IF str # <<>> /\ IsSpace(str[Len(str)])
  THEN TrimEnd(SubSeq(str, 1, Len(str) - 1))
  ELSE str

\* String.prototype.trim
Trim(str) == TrimEnd(TrimStart(str))

RECURSIVE cyrb128Mix(_, _, _)
cyrb128Mix(h, str, i) ==
  IF i > Len(str) THEN h
  ELSE LET ch == <<0, str[i]>>
       IN  cyrb128Mix(<<Imul(WXor(h[1], ch), <<9115, 38427>>),
                        Imul(WXor(h[2], ch), <<43790, 38793>>),
                        Imul(WXor(h[3], ch), <<14515, 19173>>),
                        Imul(WXor(h[4], ch), <<41443, 35731>>)>>, str, i + 1)

cyrb128(str) ==
  LET h  == cyrb128Mix(<<<<27145, 58983>>, <<47975, 44677>>,
                         <<15470, 62322>>, <<42319, 62778>>>>, str, 1)
      h1 == Imul(WXor(h[3], WShr(h[1], 18)), <<9115, 38427>>)
      h2 == Imul(WXor(h[4], WShr(h[2], 22)), <<43790, 38793>>)
      h3 == Imul(WXor(h1, WShr(h[3], 17)), <<14515, 19173>>)
      h4 == Imul(WXor(h2, WShr(h[4], 19)), <<41443, 35731>>)
  IN  <<h1, h2, h3, h4>>

\* One call of the closure sfc32 returns: the closure's next state <<a, b, c, d>>
\* and the 32-bit result (the value returned is result / 2^32).
sfc32(s) ==
  LET t  == WAdd(s[1], s[2])
      a  == WXor(s[2], WShr(s[2], 9))
      b  == WAdd(s[3], WShl(s[3], 3))
      c  == WAdd(WAdd(WShl(s[3], 21), WShr(s[3], 11)), t)
      d  == WAdd(s[4], <<0, 1>>)
  IN  [state |-> <<a, b, c, d>>, result |-> WAdd(t, d)]

RECURSIVE Skip(_, _)
Skip(s, n) == IF n = 0 THEN s ELSE Skip(sfc32(s).state, n - 1)

WARMUP == 12

createSeededRng(seedValue) == Skip(cyrb128(Trim(seedValue)), WARMUP)

-----------------------------------------------------------------------------
(* Fixed-point arithmetic for Math.sin, Math.cos, Math.exp and random() * n *)

TWO_PI == 6283

PI == 3142

HALF_PI == PI \div 2

\* sin of x thousandths of a radian, 0 <= x <= HALF_PI, in thousandths
\* (the Taylor polynomial of degree 7, in Horner form)
SinQuarter(x) ==
  LET y == (x * x) \div 1000
      a == 1000 - (y \div 42)
      b == 1000 - ((y * a) \div 20000)
      c == 1000 - ((y * b) \div 6000)
  IN  (x * c) \div 1000

\* Math.sin
Sin(x) ==
  LET r == x % TWO_PI
  IN  IF r <= HALF_PI THEN SinQuarter(r)
      ELSE IF r <= PI THEN SinQuarter(PI - r)
      ELSE IF r <= PI + HALF_PI THEN -SinQuarter(r - PI)
      ELSE -SinQuarter(Min(TWO_PI - r, HALF_PI))

\* Math.cos
Cos(x) == Sin(x + HALF_PI)

\* e^-n in millionths, n = 0..7; below one thousandth from n = 7 on
ExpNegInt == <<1000000, 367879, 135335, 49787, 18316, 6738, 2479, 912>>

\* Math.exp(-q / 1000) in thousandths, q >= 0
ExpNeg(q) ==
  LET n  == q \div 1000
      f  == q % 1000
      t6 == 1000 - (f \div 6)
      t5 == 1000 - ((f * t6) \div 5000)
      t4 == 1000 - ((f * t5) \div 4000)
      t3 == 1000 - ((f * t4) \div 3000)
      t2 == 1000 - ((f * t3) \div 2000)
      t1 == 1000 - ((f * t2) \div 1000)
  IN  IF n >= Len(ExpNegInt) THEN 0 ELSE (ExpNegInt[n + 1] * t1) \div 1000000

\* Math.floor(u * n) for the value u = word / 2^32 that random() returns, n < 2^15
Scale(u, n) == (u[1] * n + ((u[2] * n) \div W16)) \div W16

\* Math.floor(Math.sqrt(n)), bit by bit
RECURSIVE SqrtBits(_, _, _)
SqrtBits(n, r, b) ==
  IF b = 0 THEN r
  ELSE IF r + b <= 46340 /\ (r + b) * (r + b) <= n
       THEN SqrtBits(n, r + b, b \div 2)
       ELSE SqrtBits(n, r, b \div 2)

Sqrt(n) == SqrtBits(n, 0, 32768)

\* Math.hypot(dx, dy) < limit, for 0 < limit < 2^15
HypotLess(dx, dy, limit) ==
  /\ Abs(dx) < limit
  /\ Abs(dy) < limit
  /\ dx * dx + dy * dy < limit * limit

-----------------------------------------------------------------------------
(* The program's constants *)

\* one world unit, in the model's unit of length
UNIT == 2 ^ 4

MAP_SIZE == 10000 * UNIT

ISLAND_COUNT == 16

MIN_ISLAND_GAP == 900 * UNIT

\* the argument of generateWaves in seedData
WAVE_COUNT == 320

\* the attempts generateIslands allows itself for each island asked for
ATTEMPTS_PER_ISLAND == 60

\* the two functions a generator's parameter `random` can be bound to: the
\* closure createSeededRng returned, or the parameter's default, Math.random
SEEDED == "seeded"

MATH_RANDOM == "Math.random"

-----------------------------------------------------------------------------
(* random(): n successive calls *)

\* The n results of calling the seeded closure n times from state s, each
\* with the closure's state after it.
RECURSIVE Stream(_, _)
Stream(s, n) ==
  IF n = 0 THEN <<>>
  ELSE LET prev == Stream(s, n - 1)
           last == IF n = 1 THEN s ELSE prev[n - 1].state
       IN  Append(prev, sfc32(last))

\* what a function that returns one value on every call returns
ConstantValue(random) == IF random = "() => 0" THEN <<0, 0>> ELSE <<32768, 0>>

\* n calls of `random`: the seeded closure advances its own state; Math.random
\* returns values the seed does not determine (m, chosen by the environment)
\* and leaves the closure alone; any other function a caller hands over is
\* one that returns the same value on every call.
Draws(random, s, n, m) ==
  IF random = SEEDED THEN Stream(s, n)
  ELSE IF random = MATH_RANDOM THEN [k \in 1..n |-> [state |-> s, result |-> m]]
  ELSE [k \in 1..n |-> [state |-> s, result |-> ConstantValue(random)]]

\* the closure's state after the draws d taken from state s
After(d, s) == IF Len(d) = 0 THEN s ELSE d[Len(d)].state

\* random() < p / q, for q < 2^15
Below(u, p, q) == Scale(u, q) < p

\* random() > 0.5
AboveHalf(u) == u[1] > 32768 \/ (u[1] = 32768 /\ u[2] > 0)

-----------------------------------------------------------------------------
(* The world generator.  One run of seedData is a record g: the closure's   *)
(* state rng, the function `random` is bound to, the position pc in the     *)
(* code, the locals of generateIslands (count, attempts, islands), the      *)
(* island under construction (cur, shape, the loop indices i and j) and the *)
(* waves.  Each step below is the code between two positions.               *)

EmptyIsland ==
  [x |-> 0, y |-> 0, radius |-> 0, points |-> <<>>, coastline |-> <<>>,
   beach |-> <<>>, grass |-> <<>>, canopy |-> <<>>, palette |-> 0,
   textureSeed |-> 0, waveAnimation |-> <<>>, cliffs |-> <<>>,
   treeClusters |-> <<>>, streams |-> <<>>, highlights |-> <<>>]

EmptyShape ==
  [segments |-> 0, phases |-> <<>>, amplitudes |-> <<>>, jitterStrength |-> 0,
   headlands |-> <<>>, coves |-> <<>>]

EmptyCluster == [anchor |-> [angle |-> 0, radius |-> 0, x |-> 0, y |-> 0],
                 clusterRadius |-> 0, treeCount |-> 0]

\* seedData up to the call of sfc32: the seed is hashed, nothing is drawn yet
StartGeneration(seedValue, count, waveCount) ==
  [pc |-> "warmup", rng |-> cyrb128(Trim(seedValue)), random |-> SEEDED,
   count |-> count, waveCount |-> waveCount, attempts |-> 0, islands |-> <<>>,
   waves |-> <<>>, cur |-> EmptyIsland, shape |-> EmptyShape,
   cluster |-> EmptyCluster, trees |-> <<>>, i |-> 0, j |-> 0, n |-> 0]

\* createSeededRng's warm-up loop, one iteration
WarmUp(g) ==
  IF g.i < WARMUP
  THEN [g EXCEPT !.rng = sfc32(g.rng).state, !.i = g.i + 1]
  ELSE [g EXCEPT !.pc = "attempt", !.i = 0]

\* an overlap test that forgets the gap between islands
OverlapsWithoutGap(islands, x, y, radius) ==
  \E k \in 1..Len(islands) :
     HypotLess(islands[k].x - x, islands[k].y - y, islands[k].radius + radius)

\* islands.some(...) of generateIslands
Overlaps(islands, x, y, radius) ==
  \E k \in 1..Len(islands) :
     HypotLess(islands[k].x - x, islands[k].y - y,
               islands[k].radius + radius + MIN_ISLAND_GAP)

\* a loop of generateIslands that never gives up
PlaceAttemptUnbounded(g, m) ==
  IF Len(g.islands) < g.count
  THEN LET d      == Draws(g.random, g.rng, 3, m)
           radius == 200 * UNIT + Scale(d[1].result, 320 * UNIT)
           x      == Scale(d[2].result, MAP_SIZE \div 8) * 8
           y      == Scale(d[3].result, MAP_SIZE \div 8) * 8
       IN  [g EXCEPT !.rng = After(d, g.rng),
                     !.attempts = g.attempts + 1,
                     !.pc = IF Overlaps(g.islands, x, y, radius)
                            THEN "attempt" ELSE "shape",
                     !.cur = [EmptyIsland EXCEPT !.x = x, !.y = y, !.radius = radius]]
  ELSE [g EXCEPT !.pc = "waves", !.i = 0, !.cur = EmptyIsland]

\* generateIslands: the loop test and one placement attempt
PlaceAttempt(g, m) ==
  IF Len(g.islands) < g.count /\ g.attempts < g.count * ATTEMPTS_PER_ISLAND
  THEN LET d      == Draws(g.random, g.rng, 3, m)
           radius == 200 * UNIT + Scale(d[1].result, 320 * UNIT)
           x      == Scale(d[2].result, MAP_SIZE \div 8) * 8
           y      == Scale(d[3].result, MAP_SIZE \div 8) * 8
       IN  [g EXCEPT !.rng = After(d, g.rng),
                     !.attempts = g.attempts + 1,
                     !.pc = IF Overlaps(g.islands, x, y, radius)
                            THEN "attempt" ELSE "shape",
                     !.cur = [EmptyIsland EXCEPT !.x = x, !.y = y, !.radius = radius]]
  ELSE [g EXCEPT !.pc = "waves", !.i = 0, !.cur = EmptyIsland]

\* generateCoastlineShape: segments, the four phases, the five amplitudes
ShapeWaves(g, random, m) ==
  LET d == Draws(random, g.rng, 10, m)
  IN  [g EXCEPT !.rng = After(d, g.rng),
                !.pc = "headlands",
                !.shape = [EmptyShape EXCEPT
                   !.segments = 46 + Scale(d[1].result, 20),
                   !.phases = [k \in 1..4 |-> Scale(d[k + 1].result, TWO_PI)],
                   !.amplitudes = <<180 + Scale(d[6].result, 80),
                                    120 + Scale(d[7].result, 60),
                                     80 + Scale(d[8].result, 40),
                                     50 + Scale(d[9].result, 30)>>,
                   !.jitterStrength = 80 + Scale(d[10].result, 60)]]

\* generateCoastlineShape: the three headlands
ShapeHeadlands(g, random, m) ==
  LET d == Draws(random, g.rng, 9, m)
  IN  [g EXCEPT !.rng = After(d, g.rng),
                !.pc = "coves",
                !.shape.headlands =
                   [k \in 1..3 |->
                      [angle    |-> Scale(d[3 * k - 2].result, TWO_PI),
                       width    |-> 600 + Scale(d[3 * k - 1].result, 600),
                       strength |-> 160 + Scale(d[3 * k].result, 260)]]]

\* generateCoastlineShape: the two coves
ShapeCoves(g, random, m) ==
  LET d == Draws(random, g.rng, 6, m)
  IN  [g EXCEPT !.rng = After(d, g.rng),
                !.pc = "coastline", !.i = 0,
                !.shape.coves =
                   [k \in 1..2 |->
                      [angle    |-> Scale(d[3 * k - 2].result, TWO_PI),
                       width    |-> 800 + Scale(d[3 * k - 1].result, 900),
                       strength |-> 120 + Scale(d[3 * k].result, 220)]]]

normalizeAngle(angle) == (JsRem(angle, TWO_PI) + TWO_PI) % TWO_PI

shortestAngleDiff(a, b) == normalizeAngle(a - b + PI) - PI

gaussianFalloff(diff, width) ==
  LET ratio == RDiv(diff * 1000, width)
  IN  ExpNeg((ratio * ratio) \div 1000)

MIN_MULTIPLIER == 480

MAX_MULTIPLIER == 1480

\* the multiplier of the coastline point at `angle`, before the clamp;
\* jitter is the value of random() in thousandths
Multiplier(shape, angle, jitter) ==
  LET wave(k, f) == RDiv(Sin((angle * f) \div 10 + shape.phases[k]) * shape.amplitudes[k], 1000)
      bump(f)    == RDiv(gaussianFalloff(shortestAngleDiff(angle, f.angle), f.width) * f.strength, 1000)
  IN  1000 + wave(1, 11) + wave(2, 24) + wave(3, 48) + wave(4, 73)
           + bump(shape.headlands[1]) + bump(shape.headlands[2]) + bump(shape.headlands[3])
           - bump(shape.coves[1]) - bump(shape.coves[2])
           + RDiv((jitter - 500) * shape.jitterStrength, 1000)

\* a point of a ring, from its angle and radius
RingPoint(angle, r) ==
  [angle |-> angle, radius |-> r,
   x |-> RDiv(Cos(angle) * r, 1000), y |-> RDiv(Sin(angle) * r, 1000)]

\* a coastline whose multipliers are left as the sum gives them
generateCoastlineUnclamped(g, random, m) ==
  IF g.i < g.shape.segments
  THEN LET d          == Draws(random, g.rng, 1, m)
           angle      == (g.i * TWO_PI) \div g.shape.segments
           multiplier == Multiplier(g.shape, angle, Scale(d[1].result, 1000))
           r          == (g.cur.radius * multiplier) \div 1000
       IN  [g EXCEPT !.rng = After(d, g.rng),
                     !.i = g.i + 1,
                     !.cur.coastline = Append(g.cur.coastline, RingPoint(angle, r))]
  ELSE [g EXCEPT !.pc = "beach", !.i = 0]

\* generateCoastlineShape: one iteration of the loop over the segments
generateCoastlineShape(g, random, m) ==
  IF g.i < g.shape.segments
  THEN LET d          == Draws(random, g.rng, 1, m)
           angle      == (g.i * TWO_PI) \div g.shape.segments
           multiplier == Multiplier(g.shape, angle, Scale(d[1].result, 1000))
           clampedMultiplier == Max(MIN_MULTIPLIER, Min(MAX_MULTIPLIER, multiplier))
           r          == (g.cur.radius * clampedMultiplier) \div 1000
       IN  [g EXCEPT !.rng = After(d, g.rng),
                     !.i = g.i + 1,
                     !.cur.coastline = Append(g.cur.coastline, RingPoint(angle, r))]
  ELSE [g EXCEPT !.pc = "beach", !.i = 0]

\* a ring point that forgets the scale of its ring
InnerPointUnscaled(point, scale, jitter, u) ==
  LET jitterAmount == 1000 + RDiv((Scale(u, 1000) - 500) * jitter, 1000)
  IN  RingPoint(point.angle, (point.radius * jitterAmount) \div 1000)

\* createInnerRing: the ring point made from one coastline point;
\* scale and jitter in thousandths, u the value random() returned
InnerPoint(point, scale, jitter, u) ==
  LET jitterAmount == 1000 + RDiv((Scale(u, 1000) - 500) * jitter, 1000)
      r == Min((point.radius * 995) \div 1000,
               (((point.radius * scale) \div 1000) * jitterAmount) \div 1000)
  IN  RingPoint(point.angle, r)

\* createInnerRing(coastline, scale, jitter, random): one point of the map;
\* the ring under construction is g.cur[ring]
createInnerRing(g, ring, scale, jitter, random, next, m) ==
  IF g.i < Len(g.cur.coastline)
  THEN LET d == Draws(random, g.rng, 1, m)
       IN  [g EXCEPT !.rng = After(d, g.rng),
                     !.i = g.i + 1,
                     !.cur[ring] = Append(g.cur[ring],
                        InnerPoint(g.cur.coastline[g.i + 1], scale, jitter, d[1].result))]
  ELSE [g EXCEPT !.pc = next, !.i = 0]

PALETTES == 3

\* a pickPalette that calls Math.random where it was handed the generator
pickPaletteUnseeded(g, random, m) ==
  LET d == Draws(MATH_RANDOM, g.rng, 1, m)
  IN  [g EXCEPT !.rng = After(d, g.rng),
                !.pc = "texture",
                !.cur.palette = Scale(d[1].result, PALETTES)]

\* pickPalette: the index of the palette picked
pickPalette(g, random, m) ==
  LET d == Draws(random, g.rng, 1, m)
  IN  [g EXCEPT !.rng = After(d, g.rng),
                !.pc = "texture",
                !.cur.palette = Scale(d[1].result, PALETTES)]

\* the island literal of generateIslands: points, textureSeed, waveAnimation
IslandTexture(g, random, m) ==
  LET d == Draws(random, g.rng, 5, m)
  IN  [g EXCEPT !.rng = After(d, g.rng),
                !.pc = "cliffs",
                !.cur.points = [k \in 1..Len(g.cur.coastline) |->
                                  [x |-> g.cur.coastline[k].x, y |-> g.cur.coastline[k].y]],
                !.cur.textureSeed = Scale(d[1].result, 10000) * 100,
                !.cur.waveAnimation = <<Scale(d[2].result, 400 * UNIT),
                                        600 + Scale(d[3].result, 800),
                                        12 * UNIT + Scale(d[4].result, 10 * UNIT),
                                        220 + Scale(d[5].result, 250)>>]

\* generateCliffs
generateCliffs(g, random, m) ==
  LET roll        == Draws(random, g.rng, 1, m)
      none        == Below(roll[1].result, 3, 10)
      more        == Draws(random, After(roll, g.rng), IF none THEN 0 ELSE 1, m)
      cliffGroups == IF none THEN 0 ELSE 1 + Scale(more[1].result, 2)
      s           == After(more, After(roll, g.rng))
      d           == Draws(random, s, 3 * cliffGroups, m)
  IN  [g EXCEPT !.rng = After(d, s),
                !.pc = "clusters",
                !.cur.cliffs =
                   [k \in 1..cliffGroups |->
                      LET startAngle == Scale(d[3 * k - 2].result, TWO_PI)
                          width      == 320 + Scale(d[3 * k - 1].result, 550)
                      IN  [startAngle |-> startAngle, endAngle |-> startAngle + width,
                           layers |-> 2 + Scale(d[3 * k].result, 3)]]]

\* generateTreeClusters: clusterCount
TreeClusterCount(g, random, m) ==
  LET d == Draws(random, g.rng, 1, m)
  IN  [g EXCEPT !.rng = After(d, g.rng),
                !.pc = "cluster", !.i = 0,
                !.n = 4 + Scale(d[1].result, 6)]

\* generateTreeClusters: the head of one iteration of the loop over the
\* clusters (anchor, clusterRadius, treeCount), or the end of the loop
TreeCluster(g, random, m) ==
  IF g.i < g.n
  THEN LET d == Draws(random, g.rng, 3, m)
           anchor == g.cur.canopy[Scale(d[1].result, Len(g.cur.canopy)) + 1]
       IN  [g EXCEPT !.rng = After(d, g.rng),
                     !.pc = "tree", !.j = 0,
                     !.trees = <<>>,
                     !.cluster = [anchor |-> anchor,
                                  clusterRadius |-> (g.cur.radius * (90 + Scale(d[2].result, 140))) \div 1000,
                                  treeCount |-> 10 + Scale(d[3].result, 18)]]
  ELSE [g EXCEPT !.pc = "streams", !.i = 0, !.cluster = EmptyCluster]

\* generateTreeClusters: one tree, or clusters.push({ trees })
Tree(g, random, m) ==
  IF g.j < g.cluster.treeCount
  THEN LET d        == Draws(random, g.rng, 6, m)
           angle    == Scale(d[1].result, TWO_PI)
           distance == (Sqrt(Scale(d[2].result, 1000) * 1000) * g.cluster.clusterRadius) \div 1000
           conifer  == Below(d[4].result, 45, 100)
       IN  [g EXCEPT !.rng = After(d, g.rng),
                     !.j = g.j + 1,
                     !.trees = Append(g.trees,
                        [x |-> g.cluster.anchor.x + RDiv(Cos(angle) * distance, 1000),
                         y |-> g.cluster.anchor.y + RDiv(Sin(angle) * distance, 1000),
                         size |-> (g.cur.radius * (24 + Scale(d[3].result, 45))) \div 1000,
                         type |-> IF conifer THEN "conifer" ELSE "broadleaf",
                         lean |-> RDiv((Scale(d[5].result, 1000) - 500) * 600, 1000),
                         layers |-> IF conifer THEN 3 + Scale(d[6].result, 3)
                                    ELSE 2 + Scale(d[6].result, 2)])]
  ELSE [g EXCEPT !.pc = "cluster", !.i = g.i + 1, !.j = 0, !.trees = <<>>,
                 !.cur.treeClusters = Append(g.cur.treeClusters, g.trees)]

\* generateStreams: roll and streamCount
StreamCount(g, random, m) ==
  LET d == Draws(random, g.rng, 1, m)
  IN  [g EXCEPT !.rng = After(d, g.rng),
                !.pc = "stream", !.i = 0,
                !.n = IF Below(d[1].result, 25, 100) THEN 2
                      ELSE IF Below(d[1].result, 65, 100) THEN 1 ELSE 0]

\* generateStreams: one iteration of the loop, or the end of the loop
generateStreams(g, random, m) ==
  IF g.i < g.n
  THEN LET d  == Draws(random, g.rng, 6, m)
           outlet == g.cur.coastline[Scale(d[1].result, Len(g.cur.coastline)) + 1]
           exit   == [x |-> RDiv(outlet.x * 92, 100), y |-> RDiv(outlet.y * 92, 100)]
           sourceAngle  == normalizeAngle(outlet.angle + PI
                              + RDiv((Scale(d[2].result, 1000) - 500) * 700, 1000))
           sourceRadius == (g.cur.radius * (100 + Scale(d[3].result, 220))) \div 1000
           start  == [x |-> RDiv(Cos(sourceAngle) * sourceRadius, 1000),
                      y |-> RDiv(Sin(sourceAngle) * sourceRadius, 1000)]
           deltaX == exit.x - start.x
           deltaY == exit.y - start.y
           hypot  == Sqrt(deltaX * deltaX + deltaY * deltaY)
           length == IF hypot = 0 THEN 1 ELSE hypot
           bend   == (g.cur.radius * (50 + Scale(d[4].result, 80))) \div 1000
           bendDir == IF AboveHalf(d[5].result) THEN 1 ELSE -1
           offsetX == RDiv((-deltaY) * bend, length) * bendDir
           offsetY == RDiv(deltaX * bend, length) * bendDir
       IN  [g EXCEPT !.rng = After(d, g.rng),
                     !.i = g.i + 1,
                     !.cur.streams = Append(g.cur.streams,
                        [start |-> start,
                         control1 |-> [x |-> start.x + RDiv(deltaX * 3, 10) + offsetX,
                                       y |-> start.y + RDiv(deltaY * 3, 10) + offsetY],
                         control2 |-> [x |-> start.x + RDiv(deltaX * 7, 10) + RDiv(offsetX * 6, 10),
                                       y |-> start.y + RDiv(deltaY * 7, 10) + RDiv(offsetY * 6, 10)],
                         end |-> exit,
                         width |-> 4 * UNIT + Scale(d[6].result, 3 * UNIT)])]
  ELSE [g EXCEPT !.pc = "meadows", !.i = 0]

\* generateMeadowHighlights: highlightCount
HighlightCount(g, random, m) ==
  LET d == Draws(random, g.rng, 1, m)
  IN  [g EXCEPT !.rng = After(d, g.rng),
                !.pc = "meadow", !.i = 0,
                !.n = 3 + Scale(d[1].result, 4)]

\* generateMeadowHighlights: one iteration of the loop; at the end of the
\* loop the island literal is complete and generateIslands pushes it
generateMeadowHighlights(g, random, m) ==
  IF g.i < g.n
  THEN LET d == Draws(random, g.rng, 2, m)
           anchor == g.cur.grass[Scale(d[1].result, Len(g.cur.grass)) + 1]
       IN  [g EXCEPT !.rng = After(d, g.rng),
                     !.i = g.i + 1,
                     !.cur.highlights = Append(g.cur.highlights,
                        [x |-> anchor.x, y |-> anchor.y,
                         radius |-> (g.cur.radius * (120 + Scale(d[2].result, 160))) \div 1000])]
  ELSE [g EXCEPT !.pc = "attempt", !.i = 0, !.n = 0,
                 !.islands = Append(g.islands, g.cur),
                 !.cur = EmptyIsland, !.shape = EmptyShape]

\* generateWaves: one element of Array.from, or the end of seedData
generateWaves(g, random, m) ==
  IF g.i < g.waveCount
  THEN LET d == Draws(random, g.rng, 6, m)
       IN  [g EXCEPT !.rng = After(d, g.rng),
                     !.i = g.i + 1,
                     !.waves = Append(g.waves,
                        [x |-> Scale(d[1].result, MAP_SIZE \div 8) * 8,
                         y |-> Scale(d[2].result, MAP_SIZE \div 8) * 8,
                         amplitude |-> 18 * UNIT + Scale(d[3].result, 24 * UNIT),
                         length |-> 60 * UNIT + Scale(d[4].result, 120 * UNIT),
                         speed |-> 12 * UNIT + Scale(d[5].result, 22 * UNIT),
                         phase |-> Scale(d[6].result, TWO_PI)])]
  ELSE [g EXCEPT !.pc = "done", !.i = 0]

\* One step of seedData: createSeededRng, then generateIslands(count, random),
\* then generateWaves(waveCount, random); generateIslands hands its own
\* `random` to every generator it calls.
GenStep(g, m) ==
  CASE g.pc = "warmup"    -> WarmUp(g)
    [] g.pc = "attempt"   -> PlaceAttempt(g, m)
    [] g.pc = "shape"     -> ShapeWaves(g, g.random, m)
    [] g.pc = "headlands" -> ShapeHeadlands(g, g.random, m)
    [] g.pc = "coves"     -> ShapeCoves(g, g.random, m)
    [] g.pc = "coastline" -> generateCoastlineShape(g, g.random, m)
    [] g.pc = "beach"     -> createInnerRing(g, "beach", 980, 20, g.random, "grass", m)
    [] g.pc = "grass"     -> createInnerRing(g, "grass", 680, 160, g.random, "canopy", m)
    [] g.pc = "canopy"    -> createInnerRing(g, "canopy", 500, 220, g.random, "palette", m)
    [] g.pc = "palette"   -> pickPalette(g, g.random, m)
    [] g.pc = "texture"   -> IslandTexture(g, g.random, m)
    [] g.pc = "cliffs"    -> generateCliffs(g, g.random, m)
    [] g.pc = "clusters"  -> TreeClusterCount(g, g.random, m)
    [] g.pc = "cluster"   -> TreeCluster(g, g.random, m)
    [] g.pc = "tree"      -> Tree(g, g.random, m)
    [] g.pc = "streams"   -> StreamCount(g, g.random, m)
    [] g.pc = "stream"    -> generateStreams(g, g.random, m)
    [] g.pc = "meadows"   -> HighlightCount(g, g.random, m)
    [] g.pc = "meadow"    -> generateMeadowHighlights(g, g.random, m)
    [] g.pc = "waves"     -> generateWaves(g, g.random, m)

-----------------------------------------------------------------------------
(* The boat: constants, collision outline, collision detection *)

\* speeds in thousandths of a world unit per second
MAX_FORWARD_SPEED == 260 * 1000

\* the speed gained in one millisecond of acceleration
ACCELERATION == 140

\* the speed lost in one millisecond of braking
BRAKE_DECELERATION == 220

\* TURN_RATE = 1.8 rad/s, in tenths
TURN_RATE == 18

\* sail levels in ten-thousandths
SAIL_ONE == 10000

\* the sail target moves by 0.7 per second
SAIL_TARGET_RATE == 7

\* sailChangeRate = 1.6 per second
SAIL_CHANGE_RATE == 16

\* movingSpeedThreshold, and the threshold below which the speed snaps to 0
MOVING_SPEED_THRESHOLD == 6 * 1000

\* the speed a collision leaves at most
COLLISION_SPEED == 38 * 1000

\* idle time that drops the anchor, and the time dropping or weighing takes
IDLE_LIMIT == 3 * 1000

ANCHOR_TIME == 1 * 1000

\* the largest elapsed time render hands to updateBoat
MAX_STEP == 50

\* wakeTimer counts in 1/100000; it wraps at 1000
WAKE_WRAP == 1000 * 100000

controlKeys ==
  [forward |-> {"w", "arrowup"}, backward |-> {"s", "arrowdown"},
   left |-> {"a", "arrowleft"}, right |-> {"d", "arrowright"}]

\* offsets in world units
BOAT_COLLISION_OUTLINE ==
  << <<58, 0>>, <<44, 18>>, <<44, -18>>, <<20, 26>>, <<20, -26>>,
     <<-8, 30>>, <<-8, -30>>, <<-38, 18>>, <<-38, -18>>, <<-52, 0>> >>

RECURSIVE MaxOver(_, _, _)
MaxOver(f, k, max) ==
  IF k > Len(f) THEN max ELSE MaxOver(f, k + 1, Max(max, f[k]))

MAX_BOAT_EXTENT ==
  MaxOver([k \in 1..Len(BOAT_COLLISION_OUTLINE) |->
             Sqrt((BOAT_COLLISION_OUTLINE[k][1] * UNIT) * (BOAT_COLLISION_OUTLINE[k][1] * UNIT)
                + (BOAT_COLLISION_OUTLINE[k][2] * UNIT) * (BOAT_COLLISION_OUTLINE[k][2] * UNIT))],
          1, 0)

COLLISION_EDGE_THRESHOLD == 6 * UNIT

\* a boat that starts with the sail down
createBoatWithSailDown ==
  [x |-> MAP_SIZE \div 2, y |-> MAP_SIZE \div 2, heading |-> -HALF_PI,
   speed |-> 0, sailLevel |-> 0, sailTarget |-> 0, idleTime |-> 0,
   anchorState |-> "stowed", anchorProgress |-> 0, wakeTimer |-> 0]

createInitialBoatState ==
  [x |-> MAP_SIZE \div 2, y |-> MAP_SIZE \div 2, heading |-> -HALF_PI,
   speed |-> 0, sailLevel |-> 4000, sailTarget |-> 4000, idleTime |-> 0,
   anchorState |-> "stowed", anchorProgress |-> 0, wakeTimer |-> 0]

isPressed(set, keys) == \E key \in keys : key \in set

\* a clamp that forgets its upper bound
clampBelow(value, min, max) == Max(min, value)

clamp(value, min, max) == Max(min, Min(max, value))

getBoatCollisionSamples(b) ==
  LET cos == Cos(b.heading)
      sin == Sin(b.heading)
  IN  <<[x |-> b.x, y |-> b.y]>> \o
      [k \in 1..Len(BOAT_COLLISION_OUTLINE) |->
         LET offset == BOAT_COLLISION_OUTLINE[k]
         IN  [x |-> b.x + RDiv((offset[1] * cos - offset[2] * sin) * UNIT, 1000),
              y |-> b.y + RDiv((offset[1] * sin + offset[2] * cos) * UNIT, 1000)]]

\* the index j that accompanies i in the loops over a polygon's edges
Before(i, polygon) == IF i = 1 THEN Len(polygon) ELSE i - 1

\* the test `intersects` for the edge from polygon[j] to polygon[i]: the
\* division by yj - yi (not 0 when the first conjunct holds) is multiplied out
Intersects(point, polygon, i) ==
  LET j  == Before(i, polygon)
      xi == polygon[i].x
      yi == polygon[i].y
      xj == polygon[j].x
      yj == polygon[j].y
  IN  /\ (yi > point.y) # (yj > point.y)
      /\ IF yj > yi
         THEN (point.x - xi) * (yj - yi) < (xj - xi) * (point.y - yi)
         ELSE (point.x - xi) * (yj - yi) > (xj - xi) * (point.y - yi)

isPointInsidePolygon(point, polygon) ==
  Cardinality({i \in 1..Len(polygon) : Intersects(point, polygon, i)}) % 2 = 1

\* (px, py) is within threshold of the origin
Within(px, py, threshold) ==
  /\ Abs(px) <= threshold
  /\ Abs(py) <= threshold
  /\ px * px + py * py <= threshold * threshold

\* distSq <= thresholdSq for the edge from a = polygon[j] to b = polygon[i]:
\* t = 0 and t = 1 give the distance to a and to b, 0 < t < 1 the distance to
\* the line, cross^2 / lengthSq
NearEdge(point, polygon, i, threshold) ==
  LET a        == polygon[Before(i, polygon)]
      b        == polygon[i]
      dx       == b.x - a.x
      dy       == b.y - a.y
      lengthSq == dx * dx + dy * dy
      dot      == (point.x - a.x) * dx + (point.y - a.y) * dy
      cross    == Abs((point.x - a.x) * dy - (point.y - a.y) * dx)
  IN  IF lengthSq = 0 \/ dot <= 0 THEN Within(point.x - a.x, point.y - a.y, threshold)
      ELSE IF dot >= lengthSq THEN Within(point.x - b.x, point.y - b.y, threshold)
      ELSE BigLE(BigMul(cross, cross), BigMul(threshold * threshold, lengthSq))

isPointNearPolygonEdge(point, polygon, threshold) ==
  \E i \in 1..Len(polygon) : NearEdge(point, polygon, i, threshold)

\* dx * dx + dy * dy > limit * limit
Beyond(dx, dy, limit) ==
  \/ Abs(dx) > limit
  \/ Abs(dy) > limit
  \/ dx * dx + dy * dy > limit * limit

\* the body of detectCollision's inner loop for one island
SampleHits(samples, island) ==
  \E k \in 1..Len(samples) :
     LET localPoint == [x |-> samples[k].x - island.x, y |-> samples[k].y - island.y]
     IN  \/ isPointInsidePolygon(localPoint, island.coastline)
         \/ isPointNearPolygonEdge(localPoint, island.coastline, COLLISION_EDGE_THRESHOLD)

\* the pre-check of detectCollision: the island is skipped
Skipped(b, island) ==
  Beyond(b.x - island.x, b.y - island.y, island.radius + MAX_BOAT_EXTENT)

detectCollision(b, islands) ==
  LET Hit(samples) == \E n \in 1..Len(islands) :
                         /\ ~Skipped(b, islands[n])
                         /\ SampleHits(samples, islands[n])
  IN  Then(getBoatCollisionSamples(b), Hit)

-----------------------------------------------------------------------------
(* updateBoat(dt): dt in milliseconds, keys the set pressedKeys.current *)

Commands(keys) ==
  [forward  |-> isPressed(keys, controlKeys.forward),
   backward |-> isPressed(keys, controlKeys.backward),
   left     |-> isPressed(keys, controlKeys.left),
   right    |-> isPressed(keys, controlKeys.right)]

\* only the forward command counts as an attempt to move
ForwardOnly(commands) == commands.forward

AttemptingToMove(commands) == commands.forward \/ commands.left \/ commands.right

AnchorBlocking(anchorState) == anchorState \in {"dropping", "anchored", "weighing"}

\* lines 535-548: sailTarget and sailLevel
UpdateSail(current, commands, dt) ==
  LET t1 == IF commands.forward
            THEN clamp(current.sailTarget + dt * SAIL_TARGET_RATE, 0, SAIL_ONE)
            ELSE current.sailTarget
      t2 == IF commands.backward
            THEN clamp(t1 - dt * SAIL_TARGET_RATE, 0, SAIL_ONE)
            ELSE t1
      sailDiff == t2 - current.sailLevel
      delta == Sign(sailDiff) * Min(Abs(sailDiff), SAIL_CHANGE_RATE * dt)
  IN  [current EXCEPT !.sailTarget = t2,
                      !.sailLevel = IF Abs(sailDiff) > 1
                                    THEN clamp(current.sailLevel + delta, 0, SAIL_ONE)
                                    ELSE current.sailLevel]

\* an idle timer that restarts on every step instead of running
RestartIdle(current, commands, dt) == [current EXCEPT !.idleTime = 0]

\* an idle timer that runs on through movement
IdleThroughMovement(current, commands, dt) ==
  IF ~AnchorBlocking(current.anchorState)
  THEN [current EXCEPT !.idleTime = current.idleTime + dt]
  ELSE current

\* lines 550-559: the idle timer
UpdateIdle(current, commands, dt) ==
  LET attemptingToMove == AttemptingToMove(commands)
      isMoving == current.speed > MOVING_SPEED_THRESHOLD
  IN  IF ~AnchorBlocking(current.anchorState) /\ ~isMoving /\ ~attemptingToMove
      THEN [current EXCEPT !.idleTime = current.idleTime + dt]
      ELSE IF attemptingToMove \/ isMoving
           THEN [current EXCEPT !.idleTime = 0]
           ELSE current

\* an anchor that, once weighed, is taken for anchored again
WeighToAnchored(current, commands, dt) ==
  LET c == IF current.anchorState = "stowed" /\ current.idleTime >= IDLE_LIMIT
           THEN [current EXCEPT !.anchorState = "dropping", !.anchorProgress = 0]
           ELSE current
      progress == Min(ANCHOR_TIME, c.anchorProgress + dt)
  IN  CASE c.anchorState = "dropping" ->
             [c EXCEPT !.anchorProgress = progress,
                       !.speed = Max(0, c.speed - BRAKE_DECELERATION * dt),
                       !.anchorState = IF progress >= ANCHOR_TIME THEN "anchored" ELSE "dropping"]
        [] c.anchorState = "anchored" ->
             IF AttemptingToMove(commands)
             THEN [c EXCEPT !.speed = 0, !.anchorState = "weighing", !.anchorProgress = 0]
             ELSE [c EXCEPT !.speed = 0, !.anchorProgress = ANCHOR_TIME]
        [] c.anchorState = "weighing" ->
             IF progress >= ANCHOR_TIME
             THEN [c EXCEPT !.speed = 0, !.anchorState = "anchored",
                            !.anchorProgress = ANCHOR_TIME, !.idleTime = 0]
             ELSE [c EXCEPT !.speed = 0, !.anchorProgress = progress]
        [] OTHER -> c

\* an anchor that is stowed as soon as a movement command finds it anchored
AnchorUpAtOnce(current, commands, dt) ==
  LET c == IF current.anchorState = "stowed" /\ current.idleTime >= IDLE_LIMIT
           THEN [current EXCEPT !.anchorState = "dropping", !.anchorProgress = 0]
           ELSE current
      progress == Min(ANCHOR_TIME, c.anchorProgress + dt)
  IN  CASE c.anchorState = "dropping" ->
             [c EXCEPT !.anchorProgress = progress,
                       !.speed = Max(0, c.speed - BRAKE_DECELERATION * dt),
                       !.anchorState = IF progress >= ANCHOR_TIME THEN "anchored" ELSE "dropping"]
        [] c.anchorState = "anchored" ->
             IF AttemptingToMove(commands)
             THEN [c EXCEPT !.speed = 0, !.anchorState = "stowed",
                            !.anchorProgress = 0, !.idleTime = 0]
             ELSE [c EXCEPT !.speed = 0, !.anchorProgress = ANCHOR_TIME]
        [] c.anchorState = "weighing" ->
             IF progress >= ANCHOR_TIME
             THEN [c EXCEPT !.speed = 0, !.anchorState = "stowed",
                            !.anchorProgress = 0, !.idleTime = 0]
             ELSE [c EXCEPT !.speed = 0, !.anchorProgress = progress]
        [] OTHER -> c

\* lines 561-587: the anchor
UpdateAnchor(current, commands, dt) ==
  LET c == IF current.anchorState = "stowed" /\ current.idleTime >= IDLE_LIMIT
           THEN [current EXCEPT !.anchorState = "dropping", !.anchorProgress = 0]
           ELSE current
      progress == Min(ANCHOR_TIME, c.anchorProgress + dt)
  IN  CASE c.anchorState = "dropping" ->
             [c EXCEPT !.anchorProgress = progress,
                       !.speed = Max(0, c.speed - BRAKE_DECELERATION * dt),
                       !.anchorState = IF progress >= ANCHOR_TIME THEN "anchored" ELSE "dropping"]
        [] c.anchorState = "anchored" ->
             IF AttemptingToMove(commands)
             THEN [c EXCEPT !.speed = 0, !.anchorState = "weighing", !.anchorProgress = 0]
             ELSE [c EXCEPT !.speed = 0, !.anchorProgress = ANCHOR_TIME]
        [] c.anchorState = "weighing" ->
             IF progress >= ANCHOR_TIME
             THEN [c EXCEPT !.speed = 0, !.anchorState = "stowed",
                            !.anchorProgress = 0, !.idleTime = 0]
             ELSE [c EXCEPT !.speed = 0, !.anchorProgress = progress]
        [] OTHER -> c

\* a desired speed that takes no account of the anchor
DesiredSpeedAnchorOrNot(current) ==
  current.sailLevel * (MAX_FORWARD_SPEED \div SAIL_ONE)

\* line 590
DesiredSpeed(current) ==
  IF ~AnchorBlocking(current.anchorState)
  THEN current.sailLevel * (MAX_FORWARD_SPEED \div SAIL_ONE)
  ELSE 0

\* lines 589-600: the speed
UpdateSpeed(current, commands, dt) ==
  LET desiredSpeed == DesiredSpeed(current)
      speed == IF current.speed < desiredSpeed
               THEN Min(desiredSpeed, current.speed + ACCELERATION * dt)
               ELSE IF current.speed > desiredSpeed
                    THEN Max(desiredSpeed, current.speed - BRAKE_DECELERATION * dt)
                    ELSE current.speed
  IN  [current EXCEPT !.speed =
         IF /\ desiredSpeed < MOVING_SPEED_THRESHOLD
            /\ speed < MOVING_SPEED_THRESHOLD
            /\ ~AttemptingToMove(commands)
         THEN 0 ELSE speed]

\* min(speed / MAX_FORWARD_SPEED, 1), in thousandths
SpeedFraction(speed) == Min((speed * 1000) \div MAX_FORWARD_SPEED, 1000)

\* a helm that answers whatever the anchor does
UpdateHeadingAtAnchor(current, commands, dt) ==
  LET turnStrength == 600 + SpeedFraction(current.speed)
      turn == RDiv(TURN_RATE * dt * turnStrength, 10000)
      h1 == IF commands.left THEN current.heading - turn ELSE current.heading
      h2 == IF commands.right THEN h1 + turn ELSE h1
  IN  [current EXCEPT !.heading = h2]

\* lines 602-610: the heading
UpdateHeading(current, commands, dt) ==
  LET canSteer == current.anchorState \notin {"anchored", "weighing"}
      turnStrength == 600 + SpeedFraction(current.speed)
      turn == RDiv(TURN_RATE * dt * turnStrength, 10000)
      h1 == IF canSteer /\ commands.left THEN current.heading - turn ELSE current.heading
      h2 == IF canSteer /\ commands.right THEN h1 + turn ELSE h1
  IN  [current EXCEPT !.heading = h2]

\* lines 612-615: proposedBoat, from the boat whose sail, anchor, speed and
\* heading have been updated
ProposedBoat(current, dt) ==
  LET distance == (current.speed * dt) \div 1000
  IN  [x |-> current.x + RDiv(Cos(current.heading) * distance * UNIT, 1000000),
       y |-> current.y + RDiv(Sin(current.heading) * distance * UNIT, 1000000),
       heading |-> current.heading]

\* line 624
UpdateWake(current, dt) ==
  [current EXCEPT !.wakeTimer =
     (current.wakeTimer + dt * (80 + (3 * SpeedFraction(current.speed)) \div 10)) % WAKE_WRAP]

\* lines 527-610: the boat before the position is proposed
Steered(boat, keys, dt) ==
  LET commands   == Commands(keys)
      Idle(c)    == UpdateIdle(c, commands, dt)
      Anchor(c)  == UpdateAnchor(c, commands, dt)
      Speed(c)   == UpdateSpeed(c, commands, dt)
      Heading(c) == UpdateHeading(c, commands, dt)
  IN  Then(Then(Then(Then(UpdateSail(boat, commands, dt), Idle), Anchor), Speed), Heading)

\* a boat that goes where it is headed, land or no land
MoveThrough(current, proposedBoat, collision) ==
  [current EXCEPT !.x = clamp(proposedBoat.x, 0, MAP_SIZE),
                  !.y = clamp(proposedBoat.y, 0, MAP_SIZE)]

\* lines 616-622: the position, or the cap on the speed
Move(current, proposedBoat, collision) ==
  IF ~collision
  THEN [current EXCEPT !.x = clamp(proposedBoat.x, 0, MAP_SIZE),
                       !.y = clamp(proposedBoat.y, 0, MAP_SIZE)]
  ELSE [current EXCEPT !.speed = Min(current.speed, COLLISION_SPEED)]

updateBoat(boat, keys, dt, islands) ==
  LET Wake(c) == UpdateWake(c, dt)
      Collide(current) ==
        LET Commit(proposedBoat) ==
              Move(current, proposedBoat, detectCollision(proposedBoat, islands))
        IN  Then(Then(ProposedBoat(current, dt), Commit), Wake)
  IN  Then(Steered(boat, keys, dt), Collide)

\* updateWaves, for one wave
UpdateWave(wave, dt) ==
  LET phase == wave.phase + (dt * wave.speed * 4) \div (10 * UNIT)
      wrap(v) == IF JsRem(v, MAP_SIZE) < 0 THEN JsRem(v, MAP_SIZE) + MAP_SIZE
                 ELSE JsRem(v, MAP_SIZE)
  IN  [wave EXCEPT !.phase = phase,
                   !.x = wrap(wave.x + RDiv(Cos(phase) * dt * wave.speed, 1000000)),
                   !.y = wrap(wave.y + RDiv(Sin((phase * 6) \div 10) * dt * wave.speed, 1000000))]

updateWaves(waves, dt) == [k \in 1..Len(waves) |-> UpdateWave(waves[k], dt)]

\* shorelineTimeRef wraps at 1000 s
SHORELINE_WRAP == 1000 * 1000

-----------------------------------------------------------------------------
(* Bounds of the model *)

\* islands asked of generateIslands, in place of ISLAND_COUNT
MaxIslands == 2

\* waves asked of generateWaves, in place of WAVE_COUNT
MaxWaves == 2

\* frames the loop runs before it is left to finish what the anchor is doing
MaxFrames == 125

\* the player acts before the first frame, after EarlyInput frames and after
\* LateInput frames, at most MaxInputs times in all
EarlyInput == 24

LateInput == 96

MaxInputs == 3

InputFrames == {0, EarlyInput, LateInput}

\* seeds of the worlds sailed: "142" and "173"
Seeds == {<<49, 52, 50>>, <<49, 55, 51>>}

\* seeds of the worlds generated twice: "17" and " 142 "
GenSeeds == {<<49, 55>>, <<32, 49, 52, 50, 32>>}

\* the time between two frames, in ms, of a fast and of a slow display
FrameIntervals == {20, 60}

\* event.key of the keys pressed and released: forward, backward, left (right
\* is its mirror image) and a key that is no control
EventKeys == {"w", "ArrowDown", "a", "x"}

\* functions handed to generateIslands as `random` that return one value on
\* every call: every candidate falls on the same spot
ConstantRandoms == {"() => 0", "() => 0.5"}

\* values of the boat state that can wait for App to be rendered
MaxQueued == 2

\* clicks on Copy
MaxClicks == 2

\* the time the copying is followed for, in steps of a second
MaxCopyTicks == 5

\* the first frames of a run left alone come at uneven times, MaxDrift of them
MaxDrift == 5

\* headings shown, in mrad, from -MaxHeading to MaxHeading: more than a
\* full turn either way
MaxHeading == 7000

\* seeds whose first island lies about the centre of the map: "110", "186"
SpawnSeeds == {<<49, 49, 48>>, <<49, 56, 54>>}

\* what the seed form is submitted with: " 173 ", "  " and ""
SeedInputs == {<<32, 49, 55, 51, 32>>, <<32, 32>>, <<>>}

\* what crypto.getRandomValues(new Uint32Array(2)) can return
CryptoValues == {<< <<0, 35>>, <<1, 0>> >>}

\* values Math.random can return, as 32-bit words
MathRandomValues == {<<0, 0>>, <<54321, 12345>>}

-----------------------------------------------------------------------------
(* generateRandomSeed *)

\* the digit d of Number.prototype.toString(36), as a code unit
Digit36(d) == IF d < 10 THEN 48 + d ELSE 87 + d

\* num.toString(36) of a Uint32
RECURSIVE IntBase36(_)
IntBase36(w) ==
  IF w[1] = 0 /\ w[2] < 36 THEN <<Digit36(w[2])>>
  ELSE LET t == (w[1] % 36) * W16 + w[2]
       IN  Append(IntBase36(<<w[1] \div 36, t \div 36>>), Digit36(t % 36))

\* the digits after the point of u.toString(36), 0 <= u < 1, n of them at most
RECURSIVE FractionBase36(_, _)
FractionBase36(u, n) ==
  IF n = 0 \/ u = <<0, 0>> THEN <<>>
  ELSE LET lo == u[2] * 36
           hi == u[1] * 36 + lo \div W16
       IN  <<Digit36(hi \div W16)>> \o FractionBase36(<<hi % W16, lo % W16>>, n - 1)

\* generateRandomSeed: with crypto.getRandomValues, the two numbers it
\* returned, in base 36, joined, 16 characters at most; without it,
\* Math.random().toString(36).slice(2, 10), which is "0".slice(2, 10) when
\* Math.random returns 0
generateRandomSeed(crypto, array, m) ==
  IF crypto
  THEN LET joined == IntBase36(array[1]) \o IntBase36(array[2])
       IN  SubSeq(joined, 1, Min(16, Len(joined)))
  ELSE FractionBase36(m, 8)

-----------------------------------------------------------------------------
(* The telemetry App renders from boatState *)

\* Math.round of a speed, in whole units
speedKnots(b) == RDiv(b.speed, 1000)

\* Math.round of the heading in degrees, the heading taken modulo 2 pi
headingDegrees(b) == RDiv(normalizeAngle(b.heading) * 180, PI)

\* the speed above which a boat with its anchor stowed is under way
UNDER_WAY_SPEED == 10 * 1000
\* a status that takes a speed of exactly 10 for under way
shipStatusFromTen(b) ==
  IF b.anchorState = "dropping" THEN "Dropping anchor"
  ELSE IF b.anchorState = "anchored" THEN "At anchor"
  ELSE IF b.anchorState = "weighing" THEN "Weighing anchor"
  ELSE IF b.speed >= UNDER_WAY_SPEED THEN "Under way"
  ELSE "Idle"

shipStatus(b) ==
  IF b.anchorState = "dropping" THEN "Dropping anchor"
  ELSE IF b.anchorState = "anchored" THEN "At anchor"
  ELSE IF b.anchorState = "weighing" THEN "Weighing anchor"
  ELSE IF b.speed > UNDER_WAY_SPEED THEN "Under way"
  ELSE "Idle"

Telemetry(b) ==
  [shipStatus |-> shipStatus(b), speedKnots |-> speedKnots(b),
   headingDegrees |-> headingDegrees(b)]

-----------------------------------------------------------------------------
(* The application *)

VARIABLES
  seed,          \* the state `seed` of App
  seedData,      \* the run of seedData for `seed`
  replay,        \* a second run of seedData for the same seed
  wavesRef,      \* wavesRef.current
  shorelineTime, \* shorelineTimeRef.current, in ms
  boat,          \* boatRef.current
  pressedKeys,   \* pressedKeys.current
  lastTimestamp, \* the frame loop's lastTimestamp: <<>> (undefined) or <<t>>
  now,           \* the time of the latest frame, in ms
  interval,      \* the display's frame interval, in ms
  frames,        \* frames run so far (at most MaxFrames are counted)
  inputs,        \* what the player did since the latest frame
  animation,     \* the frame-loop effect: the instance in place, whether App
                 \* is mounted, and the frames requested of the browser, each
                 \* with the lastTimestamp of the closure that requested it
  scene,         \* what drawScene was handed last, and by which instance
  hud,           \* the telemetry App rendered last
  boatState,     \* the state `boatState` of App: the value App was rendered
                 \* with last, and the values set since
  copy           \* copying the seed: copyStatus, copyTimeoutRef.current, the
                 \* timeouts and clipboard writes pending, the time in ms

vars == <<seed, seedData, replay, wavesRef, shorelineTime, boat, pressedKeys,
          lastTimestamp, now, interval, frames, inputs, animation, scene, hud,
          boatState, copy>>

\* a useState that takes the first of the values set for the last
useStateStale(state) ==
  [value |-> IF state.updates = <<>> THEN state.value ELSE state.updates[1],
   updates |-> <<>>]

\* useState, as App is rendered: the value set last, or the value in place
useState(state) ==
  [value |-> IF state.updates = <<>> THEN state.value
             ELSE state.updates[Len(state.updates)],
   updates |-> <<>>]

\* setBoatState(value): the value waits for App to be rendered
setBoatState(state, value) == [state EXCEPT !.updates = Append(@, value)]

\* nothing copied, nothing pending
NoCopy ==
  [status |-> "", timeoutRef |-> 0, timeouts |-> {}, writes |-> 0,
   clock |-> 0, shownAt |-> 0, clicks |-> 0, ids |-> 0]

NoInputs == [keys |-> 0, restarts |-> 0, loads |-> 0, total |-> 0]

\* a frame requested by the instance `loop` of the frame-loop effect
Callback(loop, last) == [loop |-> loop, lastTimestamp |-> last]

\* the first run of the frame-loop effect: requestAnimationFrame(render)
FirstLoop == [loop |-> 0, mounted |-> TRUE, requested |-> {Callback(0, <<>>)}]

\* nothing is drawn before the first frame
NoScene == [loop |-> -1, boat |-> createInitialBoatState, waves |-> <<>>, shorelineTime |-> 0]

IslandsAsked == Min(ISLAND_COUNT, MaxIslands)

WavesAsked == Min(WAVE_COUNT, MaxWaves)

InitFor(seeds) ==
  /\ seed \in seeds
  /\ seedData = StartGeneration(seed, IslandsAsked, WavesAsked)
  /\ replay = StartGeneration(seed, IslandsAsked, WavesAsked)
  /\ wavesRef = <<>>
  /\ shorelineTime = 0
  /\ boat = createInitialBoatState
  /\ pressedKeys = {}
  /\ lastTimestamp = <<>>
  /\ now = 0
  /\ interval \in FrameIntervals
  /\ frames = 0
  /\ inputs = NoInputs
  /\ animation = FirstLoop
  /\ scene = NoScene
  /\ hud = Telemetry(createInitialBoatState)
  /\ boatState = [value |-> boat, updates |-> <<>>]
  /\ copy = NoCopy

Init == InitFor(Seeds)

InitGen == InitFor(GenSeeds)

islands == seedData.islands

Generated == seedData.pc = "done"

\* seedData (useMemo), a step of it; when it ends, the effect on
\* seedData.waves copies the waves
Generate ==
  /\ ~Generated
  /\ \E m \in MathRandomValues : seedData' = GenStep(seedData, m)
  /\ wavesRef' = IF seedData'.pc = "done" THEN seedData'.waves ELSE wavesRef
  /\ UNCHANGED <<seed, replay, shorelineTime, boat, pressedKeys, lastTimestamp,
                 now, interval, frames, inputs, animation, scene, hud,
                 boatState, copy>>

\* the second run of seedData, after the first
Replay ==
  /\ Generated
  /\ replay.pc # "done"
  /\ \E m \in MathRandomValues : replay' = GenStep(replay, m)
  /\ UNCHANGED <<seed, seedData, wavesRef, shorelineTime, boat, pressedKeys,
                 lastTimestamp, now, interval, frames, inputs, animation, scene, hud,
                 boatState, copy>>

\* String.prototype.toLowerCase, on the keys of EventKeys
toLowerCase(key) ==
  CASE key = "ArrowDown" -> "arrowdown"
    [] OTHER -> key

AllControlKeys ==
  controlKeys.forward \cup controlKeys.backward \cup controlKeys.left \cup controlKeys.right

\* the player acts between frames: one key and one change to the window
CanAct ==
  /\ Generated
  /\ frames < MaxFrames
  /\ frames \in InputFrames
  /\ inputs.total < MaxInputs

handleKeyDown(eventKey) ==
  /\ CanAct
  /\ inputs.keys = 0
  /\ pressedKeys' = IF toLowerCase(eventKey) \in AllControlKeys
                    THEN pressedKeys \cup {toLowerCase(eventKey)}
                    ELSE pressedKeys
  /\ inputs' = [inputs EXCEPT !.keys = 1, !.total = inputs.total + 1]
  /\ UNCHANGED <<seed, seedData, replay, wavesRef, shorelineTime, boat,
                 lastTimestamp, now, interval, frames, animation, scene, hud,
                 boatState, copy>>

handleKeyUp(eventKey) ==
  /\ CanAct
  /\ inputs.keys = 0
  /\ pressedKeys' = pressedKeys \ {toLowerCase(eventKey)}
  /\ inputs' = [inputs EXCEPT !.keys = 1, !.total = inputs.total + 1]
  /\ UNCHANGED <<seed, seedData, replay, wavesRef, shorelineTime, boat,
                 lastTimestamp, now, interval, frames, animation, scene, hud,
                 boatState, copy>>

\* a cleanup that leaves the frame it requested with the browser
cleanupForgets(a) == a

\* the cleanup of the frame-loop effect: cancelAnimationFrame(animationFrame),
\* animationFrame being the latest request of the instance in place
cleanup(a) == [a EXCEPT !.requested = {c \in @ : c.loop # a.loop}]

\* a frame-loop effect that starts with the clock of the instance before it
StartLoopWithOldClock(a) ==
  [a EXCEPT !.loop = a.loop + 1,
            !.requested = @ \cup {Callback(a.loop + 1, <<0>>)}]

\* the body of the frame-loop effect, run as a new instance: it declares a
\* new lastTimestamp and requests a frame
StartLoop(a) ==
  [a EXCEPT !.loop = a.loop + 1,
            !.requested = @ \cup {Callback(a.loop + 1, <<>>)}]

\* The frame-loop effect runs again (the window was resized or the mini-map
\* toggled): its cleanup cancels the pending frame, its body declares a new
\* lastTimestamp and requests a frame.
RestartLoop ==
  /\ CanAct
  /\ animation.mounted
  /\ inputs.restarts = 0
  /\ lastTimestamp' = <<>>
  /\ animation' = StartLoop(cleanup(animation))
  /\ inputs' = [inputs EXCEPT !.restarts = 1, !.total = inputs.total + 1]
  /\ UNCHANGED <<seed, seedData, replay, wavesRef, shorelineTime, boat,
                 pressedKeys, now, interval, frames, scene, hud,
                 boatState, copy>>

\* an elapsed time without its cap
ElapsedUncapped(last, timestamp) ==
  timestamp - (IF last = <<>> THEN timestamp ELSE last[1])

\* the elapsed time render computes from its closure's lastTimestamp
Elapsed(last, timestamp) ==
  Min(timestamp - (IF last = <<>> THEN timestamp ELSE last[1]), MAX_STEP)

\* the elapsed time render computes for a frame at `timestamp`
ElapsedTime(timestamp) == Elapsed(lastTimestamp, timestamp)

\* the time of the next frame
NextTimestamp == now + interval

\* the frame the loop is about to run finds time elapsed
dt == ElapsedTime(NextTimestamp)

\* one of the anchor's timers is running: the idle timer of a stowed anchor,
\* or the progress of an anchor on its way down or up
TimerRunning ==
  \/ boat.anchorState \in {"dropping", "weighing"}
  \/ boat.anchorState = "stowed" /\ boat.idleTime > 0

\* Frames keep coming while the frame budget lasts, and after it until the
\* anchor's timers have run out.
FrameDue ==
  /\ Generated
  /\ animation.requested # {}
  /\ frames < MaxFrames \/ TimerRunning

\* render(timestamp), called by the browser for a frame that was requested:
\* the elapsed time, updateBoat, updateWaves, the shoreline clock, drawScene,
\* and the request of the next frame; what setBoatState does is left to the
\* actions that use it
renderCallback(timestamp) ==
  /\ FrameDue
  /\ \E c \in animation.requested :
        /\ lastTimestamp' = IF c.loop = animation.loop THEN <<timestamp>> ELSE lastTimestamp
        /\ boat' = updateBoat(boat, pressedKeys, Elapsed(c.lastTimestamp, timestamp), islands)
        /\ wavesRef' = updateWaves(wavesRef, Elapsed(c.lastTimestamp, timestamp))
        /\ shorelineTime' = (shorelineTime + Elapsed(c.lastTimestamp, timestamp)) % SHORELINE_WRAP
        /\ animation' = [animation EXCEPT
                           !.requested = (@ \ {c}) \cup {Callback(c.loop, <<timestamp>>)}]
        /\ scene' = [loop |-> c.loop, boat |-> boat', waves |-> wavesRef',
                     shorelineTime |-> shorelineTime']
  /\ now' = timestamp
  /\ frames' = Min(frames + 1, MaxFrames)
  /\ inputs' = [inputs EXCEPT !.keys = 0, !.restarts = 0, !.loads = 0]
  /\ UNCHANGED <<seed, seedData, replay, pressedKeys, interval, copy>>

\* a frame, and App rendered with the boat state it set before anything else
\* happens
render(timestamp) ==
  /\ renderCallback(timestamp)
  /\ boatState' = useState(setBoatState(boatState, boat'))
  /\ hud' = Telemetry(boat')

Frame == render(NextTimestamp)

Next ==
  \/ Generate
  \/ \E eventKey \in EventKeys : handleKeyDown(eventKey)
  \/ \E eventKey \in EventKeys : handleKeyUp(eventKey)
  \/ RestartLoop
  \/ Frame

Spec == Init /\ [][Next]_vars

\* requestAnimationFrame(render): the clock reaches the timestamp of the
\* frame the loop requested. Frame is enabled exactly when FrameDue, and the
\* steps of Next that move the clock are the steps of Frame.
FrameRuns == FrameDue /\ now' = NextTimestamp

\* The browser keeps running the frames the loop requests.
FairSpec == Spec /\ WF_now(FrameRuns)

NextGen == Generate \/ Replay

\* a seed generateRandomSeed can return
RandomSeeds ==
  {generateRandomSeed(TRUE, array, <<0, 0>>) : array \in CryptoValues}
    \cup {generateRandomSeed(FALSE, <<>>, m) : m \in MathRandomValues}

\* setSeed(nextSeed) and what follows it. A seed equal to the one in place
\* leaves the state as it is: nothing is rendered, no effect runs. Another
\* seed renders App: seedData is computed anew, the reset effect puts the
\* boat back, clears the keys and the shoreline clock, and the frame-loop
\* effect, which depends on islands, runs again.
setSeed(nextSeed) ==
  IF nextSeed = seed
  THEN UNCHANGED <<seed, seedData, replay, shorelineTime, boat, pressedKeys,
                   lastTimestamp, animation>>
  ELSE /\ seed' = nextSeed
       /\ seedData' = StartGeneration(nextSeed, IslandsAsked, WavesAsked)
       /\ replay' = StartGeneration(nextSeed, IslandsAsked, WavesAsked)
       /\ boat' = createInitialBoatState
       /\ pressedKeys' = {}
       /\ shorelineTime' = 0
       /\ lastTimestamp' = <<>>
       /\ animation' = StartLoop(cleanup(animation))

\* App as rendered once setSeed and the reset effect have run: with the
\* boat state and the telemetry of the reset, if the seed has changed
AfterSetSeed ==
  IF seed' = seed
  THEN UNCHANGED <<boatState, hud>>
  ELSE /\ boatState' = useState(setBoatState(boatState, createInitialBoatState))
       /\ hud' = Telemetry(createInitialBoatState)

\* the player loads a seed between frames, once
CanLoad == CanAct /\ animation.mounted /\ inputs.loads = 0

handleSeedSubmit(seedInput) ==
  /\ CanLoad
  /\ IF Len(Trim(seedInput)) = 0
     THEN \E randomSeed \in RandomSeeds : setSeed(randomSeed)
     ELSE setSeed(Trim(seedInput))
  /\ AfterSetSeed
  /\ inputs' = [inputs EXCEPT !.loads = 1, !.total = inputs.total + 1]
  /\ UNCHANGED <<wavesRef, now, interval, frames, scene, copy>>

handleRandomSeed ==
  /\ CanLoad
  /\ \E randomSeed \in RandomSeeds : setSeed(randomSeed)
  /\ AfterSetSeed
  /\ inputs' = [inputs EXCEPT !.loads = 1, !.total = inputs.total + 1]
  /\ UNCHANGED <<wavesRef, now, interval, frames, scene, copy>>

NextLoad ==
  \/ Generate
  \/ \E seedInput \in SeedInputs : handleSeedSubmit(seedInput)
  \/ handleRandomSeed
  \/ Frame

SpecLoad == Init /\ [][NextLoad]_vars

\* App is unmounted: the cleanup of the frame-loop effect runs and the effect
\* does not run again
Teardown ==
  /\ CanAct
  /\ animation.mounted
  /\ animation' = [cleanup(animation) EXCEPT !.mounted = FALSE]
  /\ inputs' = [inputs EXCEPT !.total = inputs.total + 1]
  /\ UNCHANGED <<seed, seedData, replay, wavesRef, shorelineTime, boat,
                 pressedKeys, lastTimestamp, now, interval, frames, scene, hud,
                 boatState, copy>>

\* the cleanup of the instance last in place is called once more
CleanupAgain ==
  /\ ~animation.mounted
  /\ inputs.total < MaxInputs
  /\ animation' = cleanup(animation)
  /\ inputs' = [inputs EXCEPT !.total = inputs.total + 1]
  /\ UNCHANGED <<seed, seedData, replay, wavesRef, shorelineTime, boat,
                 pressedKeys, lastTimestamp, now, interval, frames, scene, hud,
                 boatState, copy>>

NextLoop ==
  \/ Generate
  \/ RestartLoop
  \/ Teardown
  \/ CleanupAgain
  \/ Frame

SpecLoop == Init /\ [][NextLoop]_vars

\* the time from one frame to the next while the frames are uneven: none,
\* or one of the frame intervals
DriftSteps == {0} \cup FrameIntervals

\* a frame of a run in which no key is ever pressed, after any of the times
UnevenFrame ==
  /\ frames < MaxDrift
  /\ \E step \in DriftSteps : render(now + step)

\* the frames that follow, at the run's interval
SteadyFrame == frames >= MaxDrift /\ Frame

NextDrift ==
  \/ Generate
  \/ UnevenFrame
  \/ SteadyFrame

SpecDrift == Init /\ [][NextDrift]_vars

\* a frame that runs while values set earlier still wait for App to be
\* rendered
FrameAhead ==
  /\ Len(boatState.updates) < MaxQueued
  /\ renderCallback(NextTimestamp)
  /\ boatState' = setBoatState(boatState, boat')
  /\ hud' = hud

\* App is rendered (a value was set, the window resized, a field typed in):
\* boatState is what useState returns, and boatRef.current = boatState
AppRendered ==
  /\ boatState.updates # <<>>
  /\ boatState' = useState(boatState)
  /\ boat' = boatState'.value
  /\ hud' = Telemetry(boatState'.value)
  /\ UNCHANGED <<seed, seedData, replay, wavesRef, shorelineTime, pressedKeys,
                 lastTimestamp, now, interval, frames, inputs, animation, scene,
                 copy>>

\* the seed is changed: App is rendered, the reset effect runs, and the
\* value it set waits for App to be rendered again
SeedChangedAhead ==
  /\ CanLoad
  /\ \E nextSeed \in Seeds : nextSeed # seed /\ setSeed(nextSeed)
  /\ boatState' = setBoatState(useState(boatState), createInitialBoatState)
  /\ hud' = Telemetry(useState(boatState).value)
  /\ inputs' = [inputs EXCEPT !.loads = 1, !.total = inputs.total + 1]
  /\ UNCHANGED <<wavesRef, now, interval, frames, scene, copy>>

NextReact ==
  \/ Generate
  \/ FrameAhead
  \/ AppRendered
  \/ SeedChangedAhead

SpecReact == Init /\ [][NextReact]_vars

\* the copy status is cleared after 2000 ms
COPY_STATUS_TIME == 2000

\* setCopyStatus(status), then copyTimeoutRef.current = setTimeout(..., 2000)
ShowCopyStatus(c, status) ==
  [c EXCEPT !.status = status,
            !.shownAt = c.clock,
            !.ids = c.ids + 1,
            !.timeoutRef = c.ids + 1,
            !.timeouts = @ \cup {[id |-> c.ids + 1, due |-> c.clock + COPY_STATUS_TIME]}]

\* handleCopySeed up to its await: the timeout copyTimeoutRef holds is
\* cleared; with a clipboard, writeText is called and the function waits;
\* without one it runs to its end
handleCopySeed ==
  /\ copy.clicks < MaxClicks
  /\ \E clipboard \in BOOLEAN :
        LET cleared == [copy EXCEPT !.clicks = copy.clicks + 1,
                                    !.timeouts = {t \in @ : t.id # copy.timeoutRef}]
        IN  copy' = IF clipboard
                    THEN [cleared EXCEPT !.writes = cleared.writes + 1]
                    ELSE ShowCopyStatus(cleared, "Copy unavailable")
  /\ UNCHANGED <<seed, seedData, replay, wavesRef, shorelineTime, boat,
                 pressedKeys, lastTimestamp, now, interval, frames, inputs,
                 animation, scene, hud, boatState>>

\* handleCopySeed after its await: writeText has resolved or rejected
writeTextSettled ==
  /\ copy.writes > 0
  /\ \E resolved \in BOOLEAN :
        copy' = ShowCopyStatus([copy EXCEPT !.writes = copy.writes - 1],
                               IF resolved THEN "Seed copied!" ELSE "Copy unavailable")
  /\ UNCHANGED <<seed, seedData, replay, wavesRef, shorelineTime, boat,
                 pressedKeys, lastTimestamp, now, interval, frames, inputs,
                 animation, scene, hud, boatState>>

\* a timeout set by handleCopySeed runs: setCopyStatus('')
copyTimeout ==
  /\ \E t \in copy.timeouts :
        /\ t.due <= copy.clock
        /\ copy' = [copy EXCEPT !.status = "", !.timeouts = @ \ {t}]
  /\ UNCHANGED <<seed, seedData, replay, wavesRef, shorelineTime, boat,
                 pressedKeys, lastTimestamp, now, interval, frames, inputs,
                 animation, scene, hud, boatState>>

\* a second passes; a timeout that is due runs first
CopyTick ==
  /\ copy.clock < MaxCopyTicks * 1000
  /\ \A t \in copy.timeouts : t.due > copy.clock
  /\ copy' = [copy EXCEPT !.clock = copy.clock + 1000]
  /\ UNCHANGED <<seed, seedData, replay, wavesRef, shorelineTime, boat,
                 pressedKeys, lastTimestamp, now, interval, frames, inputs,
                 animation, scene, hud, boatState>>

NextCopy ==
  \/ handleCopySeed
  \/ writeTextSettled
  \/ copyTimeout
  \/ CopyTick

SpecCopy == Init /\ [][NextCopy]_vars

\* the frame loop is started anew by the window, the mini-map or a seed
NextRestart ==
  \/ Generate
  \/ RestartLoop
  \/ \E seedInput \in Seeds : handleSeedSubmit(seedInput)
  \/ Frame

SpecRestart == Init /\ [][NextRestart]_vars

AnchorStates == {"stowed", "dropping", "anchored", "weighing"}

\* speeds about the one that tells 'Under way' from 'Idle'
ShownSpeeds == {0, UNDER_WAY_SPEED - 1, UNDER_WAY_SPEED, UNDER_WAY_SPEED + 1}

\* boat states App can be rendered with
ShownBoats ==
  {[createInitialBoatState EXCEPT !.heading = h] : h \in -MaxHeading..MaxHeading}
    \cup {[createInitialBoatState EXCEPT !.heading = h, !.anchorState = a, !.speed = v] :
            h \in {0, HALF_PI}, a \in AnchorStates, v \in ShownSpeeds}

InitShown ==
  /\ seed \in Seeds
  /\ seedData = StartGeneration(seed, IslandsAsked, WavesAsked)
  /\ replay = StartGeneration(seed, IslandsAsked, WavesAsked)
  /\ wavesRef = <<>>
  /\ shorelineTime = 0
  /\ boat \in ShownBoats
  /\ pressedKeys = {}
  /\ lastTimestamp = <<>>
  /\ now = 0
  /\ interval \in FrameIntervals
  /\ frames = 0
  /\ inputs = NoInputs
  /\ animation = FirstLoop
  /\ scene = NoScene
  /\ hud = Telemetry(createInitialBoatState)
  /\ boatState = [value |-> boat, updates |-> <<>>]
  /\ copy = NoCopy

\* App is rendered with the boat state in place
Rerender ==
  /\ hud # Telemetry(boat)
  /\ hud' = Telemetry(boat)
  /\ UNCHANGED <<seed, seedData, replay, wavesRef, shorelineTime, boat,
                 pressedKeys, lastTimestamp, now, interval, frames, inputs,
                 animation, scene, boatState, copy>>

NextShown == Rerender

SpecShown == InitShown /\ [][NextShown]_vars

\* generateIslands(count, random) and generateWaves(count, random) called
\* with the seeded closure or with a function of ConstantRandoms
InitAny ==
  /\ seed \in GenSeeds
  /\ \E random \in {SEEDED} \cup ConstantRandoms :
        seedData = IF random = SEEDED
                   THEN StartGeneration(seed, IslandsAsked, WavesAsked)
                   ELSE [StartGeneration(seed, IslandsAsked, WavesAsked)
                           EXCEPT !.random = random, !.pc = "attempt"]
  /\ replay = StartGeneration(seed, IslandsAsked, WavesAsked)
  /\ wavesRef = <<>>
  /\ shorelineTime = 0
  /\ boat = createInitialBoatState
  /\ pressedKeys = {}
  /\ lastTimestamp = <<>>
  /\ now = 0
  /\ interval \in FrameIntervals
  /\ frames = 0
  /\ inputs = NoInputs
  /\ animation = FirstLoop
  /\ scene = NoScene
  /\ hud = Telemetry(createInitialBoatState)
  /\ boatState = [value |-> boat, updates |-> <<>>]
  /\ copy = NoCopy

NextAny == Generate

SpecAny == InitAny /\ [][NextAny]_vars

SpecGen == InitGen /\ [][NextGen]_vars

\* seedData for seeds whose first island lies about the centre of the map
SpecSpawn == InitFor(SpawnSeeds) /\ [][NextGen]_vars

-----------------------------------------------------------------------------
(* Collisions: C1, C2, C3 *)

\* No point farther than this from an island's centre is inside its
\* coastline or within the edge threshold of it: the coastline's points lie
\* within MAX_MULTIPLIER times the radius.
Reach(island) ==
  (island.radius * MAX_MULTIPLIER) \div 1000 + COLLISION_EDGE_THRESHOLD + UNIT

InReach(point, island) ==
  ~Beyond(point.x - island.x, point.y - island.y, Reach(island))

LocalPoint(point, island) == [x |-> point.x - island.x, y |-> point.y - island.y]

\* the exact tests of detectCollision on one sample and one island
SampleInside(point, island) ==
  /\ InReach(point, island)
  /\ isPointInsidePolygon(LocalPoint(point, island), island.coastline)

SampleNearEdge(point, island) ==
  /\ InReach(point, island)
  /\ isPointNearPolygonEdge(LocalPoint(point, island), island.coastline,
                            COLLISION_EDGE_THRESHOLD)

\* a collision sample of the pose b lies inside a coastline
InsideLand(b) ==
  \E n \in 1..Len(islands) : \E k \in 1..Len(getBoatCollisionSamples(b)) :
     SampleInside(getBoatCollisionSamples(b)[k], islands[n])

\* the exact tests against every island
ExactCollision(b) ==
  \E n \in 1..Len(islands) : \E k \in 1..Len(getBoatCollisionSamples(b)) :
     \/ SampleInside(getBoatCollisionSamples(b)[k], islands[n])
     \/ SampleNearEdge(getBoatCollisionSamples(b)[k], islands[n])

\* the pose the next frame hands to detectCollision
Proposed ==
  LET Propose(current) == ProposedBoat(current, dt)
  IN  Then(Steered(boat, pressedKeys, dt), Propose)

\* C1: in every step of updateBoat, if a collision sample of the proposed
\* pose lies inside the coastline of an island, the position after the step
\* is the position before it.
C1_CollisionKeepsPosition ==
  [][(now' # now /\ InsideLand(Proposed)) => (boat'.x = boat.x /\ boat'.y = boat.y)]_vars

\* C2: after every step of updateBoat no collision sample of the boat lies
\* inside a coastline: no step takes a boat that has every sample outside the
\* coastlines to a pose that has one inside.
C2_NeverInsideLand ==
  [][(now' # now /\ ~InsideLand(boat)) => ~InsideLand(boat')]_vars

\* C3: for every pose it is given, detectCollision returns what the exact
\* point-in-polygon and near-edge tests against every island return: the
\* pre-check skips no island a sample is inside of or near the edge of.
C3_PreCheckExact ==
  Generated => (detectCollision(Proposed, islands) = ExactCollision(Proposed))

-----------------------------------------------------------------------------
(* Sail, speed and anchor: C4 to C8 *)

\* C4: after every step of updateBoat, whatever the commands held and the
\* time elapsed, 0 <= sailLevel <= 1 and 0 <= speed <= MAX_FORWARD_SPEED.
C4_SailAndSpeedBounds ==
  /\ 0 <= boat.sailLevel /\ boat.sailLevel <= SAIL_ONE
  /\ 0 <= boat.speed /\ boat.speed <= MAX_FORWARD_SPEED

\* the boat has reached full sail and full speed
C4_FullSailFullSpeed ==
  /\ frames > 0
  /\ boat.sailLevel = SAIL_ONE
  /\ boat.speed = MAX_FORWARD_SPEED

\* a command that counts as an attempt to move is held
MoveHeld == AttemptingToMove(Commands(pressedKeys))

\* C5: a boat that has been idle long enough for its anchor to drop, and is
\* then given a movement command, eventually has its anchor stowed again: a
\* dropping anchor arrives, and an anchored boat with a movement command held
\* gets back to stowed (frames that find time elapsed keep running).
C5_AnchorCycleCompletes ==
  /\ (boat.anchorState = "dropping") ~> (boat.anchorState = "anchored")
  /\ (boat.anchorState = "anchored" /\ MoveHeld) ~> (boat.anchorState = "stowed")

\* the anchor is stowed again after a cycle: the sail is up, a movement
\* command is held, and the boat has only just been released
C5_StowedAgain ==
  /\ boat.anchorState = "stowed"
  /\ frames > LateInput
  /\ MoveHeld
  /\ boat.sailLevel > SAIL_ONE \div 2
  /\ boat.speed <= ACCELERATION * MAX_STEP

\* the boat is at rest and no command is held
AtRest == boat.speed = 0 /\ pressedKeys = {}

\* C6: a stowed boat that is at rest, with no command held, through steps
\* that total 3 seconds has its anchor dropped and then anchored; an anchored
\* boat has speed exactly 0. (The steps are those of the frame loop, which
\* runs once the islands are generated.)
C6_IdleBoatAnchors ==
  /\ (Generated /\ boat.anchorState = "stowed" /\ AtRest)
        ~> ((boat.anchorState = "anchored" /\ boat.speed = 0) \/ ~AtRest)
  /\ [](boat.anchorState = "anchored" => boat.speed = 0)

\* the anchor of a boat left alone has been dropped: no key has been held
\* since the early input
C6_AnchoredUntouched ==
  /\ boat.anchorState = "anchored"
  /\ boat.speed = 0
  /\ pressedKeys = {}
  /\ frames > EarlyInput
  /\ frames <= LateInput

\* C7 as claimed: a step that begins anchored with any of the four commands
\* held (forward, backward, left, right) ends with the anchor weighing.
C7_AnyCommandWeighs ==
  [][(/\ now' # now
      /\ boat.anchorState = "anchored"
      /\ \/ Commands(pressedKeys).forward
         \/ Commands(pressedKeys).backward
         \/ Commands(pressedKeys).left
         \/ Commands(pressedKeys).right)
     => boat'.anchorState = "weighing"]_vars

\* C7: a step that begins anchored with forward, left or right held ends
\* with the anchor weighing.
C7_MovementCommandWeighs ==
  [][(/\ now' # now
      /\ boat.anchorState = "anchored"
      /\ \/ Commands(pressedKeys).forward
         \/ Commands(pressedKeys).left
         \/ Commands(pressedKeys).right)
     => boat'.anchorState = "weighing"]_vars

\* the anchor has just begun to be weighed
C7_JustWeighing ==
  /\ boat.anchorState = "weighing"
  /\ boat.anchorProgress = 0
  /\ MoveHeld

\* C8: a step of updateBoat with elapsed time 0 leaves every field of the
\* boat unchanged.
C8_ZeroStepChangesNothing ==
  [][(now' # now /\ dt = 0) => boat' = boat]_vars

-----------------------------------------------------------------------------
(* Generation: C9, C10 *)

IsPrefix(s, t) == Len(s) <= Len(t) /\ s = SubSeq(t, 1, Len(s))

\* C9: two runs of the generation on the same seed string never diverge:
\* whatever the second run has produced is what the first produced, islands
\* and waves in the same order with equal values, and a finished second run
\* has produced all of it.
C9_RunsAgree ==
  Generated =>
    /\ IsPrefix(replay.islands, seedData.islands)
    /\ IsPrefix(replay.waves, seedData.waves)
    /\ replay.pc = "done" => (replay.islands = seedData.islands /\ replay.waves = seedData.waves)

\* the second run has finished, with islands and waves to compare
C9_SecondRunDone ==
  /\ replay.pc = "done"
  /\ Len(replay.islands) = IslandsAsked
  /\ Len(replay.waves) = WavesAsked

\* the centres a and b are at least a.radius + b.radius + MIN_ISLAND_GAP apart
FarApart(a, b) ==
  LET gap == a.radius + b.radius + MIN_ISLAND_GAP
      dx  == Abs(a.x - b.x)
      dy  == Abs(a.y - b.y)
  IN  dx >= gap \/ dy >= gap \/ dx * dx + dy * dy >= gap * gap

\* a candidate has been accepted and is being given its shape
Accepted(g) == g.pc \notin {"warmup", "attempt", "waves", "done"}

\* C10: every two distinct islands of generateIslands have their centres at
\* least A.radius + B.radius + MIN_ISLAND_GAP apart, and so has every accepted
\* candidate from every island placed before it.
C10_IslandsKeepGap ==
  /\ \A k \in 1..Len(seedData.islands) : \A l \in 1..Len(seedData.islands) :
        k # l => FarApart(seedData.islands[k], seedData.islands[l])
  /\ Accepted(seedData) =>
        \A k \in 1..Len(seedData.islands) : FarApart(seedData.cur, seedData.islands[k])

\* two islands are placed, after a candidate was rejected
C10_PlacedAfterRejection ==
  /\ Len(seedData.islands) >= 2
  /\ seedData.attempts > Len(seedData.islands)

\* the budget of placement attempts of generateIslands
AttemptBudget(g) == g.count * ATTEMPTS_PER_ISLAND

\* the phases of the making of one island, in the order of the code
IslandPhases ==
  <<"shape", "headlands", "coves", "coastline", "beach", "grass", "canopy",
    "palette", "texture", "cliffs", "clusters", "cluster", "streams", "stream",
    "meadows", "meadow">>

PhaseOf(pc) == IF pc = "tree" THEN "cluster" ELSE pc

MakingIsland(g) == \E k \in 1..Len(IslandPhases) : IslandPhases[k] = PhaseOf(g.pc)

\* What is left to do, most significant first: the stage of seedData, the
\* attempts left, the phases left of the island, the clusters left, the
\* iterations left of the innermost loop.
WorkLeft(g) ==
  <<CASE g.pc = "warmup" -> 3 [] g.pc = "waves" -> 1 [] g.pc = "done" -> 0 [] OTHER -> 2,
    2 * (AttemptBudget(g) - g.attempts) + (IF MakingIsland(g) THEN 1 ELSE 0),
    IF MakingIsland(g)
    THEN Len(IslandPhases) - (CHOOSE k \in 1..Len(IslandPhases) : IslandPhases[k] = PhaseOf(g.pc))
    ELSE 0,
    CASE g.pc = "cluster" -> 2 * (g.n - g.i) + 1 [] g.pc = "tree" -> 2 * (g.n - g.i) [] OTHER -> 0,
    CASE g.pc = "warmup" -> WARMUP - g.i
      [] g.pc = "coastline" -> g.shape.segments - g.i
      [] g.pc \in {"beach", "grass", "canopy"} -> Len(g.cur.coastline) - g.i
      [] g.pc = "tree" -> g.cluster.treeCount - g.j
      [] g.pc \in {"stream", "meadow"} -> g.n - g.i
      [] g.pc = "waves" -> g.waveCount - g.i
      [] OTHER -> 0>>

RECURSIVE LexLess(_, _, _)
LexLess(a, b, k) ==
  /\ k <= Len(a)
  /\ \/ a[k] < b[k]
     \/ a[k] = b[k] /\ LexLess(a, b, k + 1)

\* C11: generateIslands makes at most count * 60 placement attempts and at
\* most count islands; it leaves its loop only with count islands or with the
\* budget spent, and then returns what it has; and it terminates: every step
\* of the generation leaves less to do, and what is left is never negative.
C11_BoundedGeneration ==
  /\ [](/\ seedData.attempts <= AttemptBudget(seedData)
        /\ Len(seedData.islands) <= seedData.count
        /\ \A k \in 1..5 : WorkLeft(seedData)[k] >= 0
        /\ seedData.pc \in {"waves", "done"} =>
              \/ Len(seedData.islands) = seedData.count
              \/ seedData.attempts = AttemptBudget(seedData))
  /\ [][seedData' # seedData => LexLess(WorkLeft(seedData'), WorkLeft(seedData), 1)]_vars

\* the budget was spent first: generateIslands has returned fewer islands
\* than it was asked for
C11_BudgetSpent ==
  /\ Generated
  /\ seedData.attempts = AttemptBudget(seedData)
  /\ Len(seedData.islands) < seedData.count

\* the islands made so far and the one being made
IslandsInTheMaking(g) == IF MakingIsland(g) THEN Append(g.islands, g.cur) ELSE g.islands

\* the points of the ring `inner` made so far lie within those of `outer`
RingWithin(inner, outer) ==
  /\ Len(inner) <= Len(outer)
  /\ \A k \in 1..Len(inner) : inner[k].radius <= outer[k].radius

\* the least and the greatest value random() can return
JitterExtremes == {<<0, 0>>, <<65535, 65535>>}

\* C12: at every coastline sample of every island, canopy radius <= grass
\* radius <= beach radius <= coastline radius: for the rings as generated,
\* and for the rings createInnerRing makes of the same coastline with the
\* per-point jitter at either extreme.
C12_RingsNested ==
  \A n \in 1..Len(IslandsInTheMaking(seedData)) :
     LET island == IslandsInTheMaking(seedData)[n]
     IN  /\ RingWithin(island.beach, island.coastline)
         /\ RingWithin(island.grass, island.beach)
         /\ RingWithin(island.canopy, island.grass)
         /\ \A k \in 1..Len(island.coastline) : \A lo \in JitterExtremes : \A hi \in JitterExtremes :
               /\ InnerPoint(island.coastline[k], 980, 20, hi).radius <= island.coastline[k].radius
               /\ InnerPoint(island.coastline[k], 680, 160, hi).radius
                     <= InnerPoint(island.coastline[k], 980, 20, lo).radius
               /\ InnerPoint(island.coastline[k], 500, 220, hi).radius
                     <= InnerPoint(island.coastline[k], 680, 160, lo).radius

\* an island is complete, with its three rings as long as its coastline
C12_IslandWithRings ==
  /\ Len(seedData.islands) >= 1
  /\ Len(seedData.islands[1].coastline) >= 46
  /\ Len(seedData.islands[1].canopy) = Len(seedData.islands[1].coastline)
  /\ Len(seedData.islands[1].grass) = Len(seedData.islands[1].coastline)
  /\ Len(seedData.islands[1].beach) = Len(seedData.islands[1].coastline)


-----------------------------------------------------------------------------
(* Loading a seed *)

\* a step in which the seed form is submitted or the Random button pressed
LoadStep == inputs.loads = 0 /\ inputs'.loads = 1

\* C13: every load of a seed, whatever the seed and the boat state before
\* it, leaves the world of the loaded seed in use (generated anew, or the
\* one already generated from that very seed) and the boat in the state
\* createInitialBoatState() returns.
C13_LoadResetsBoat ==
  [][LoadStep =>
       /\ seed' # seed => seedData' = StartGeneration(seed', IslandsAsked, WavesAsked)
       /\ seed' = seed => seedData' = seedData
       /\ boat' = createInitialBoatState]_vars

\* C18: whatever the seed form is submitted with, blank input included, and
\* however often Random is pressed, the active seed is a trimmed string and
\* never the empty one: blank input loads a newly generated random seed.
C18_SeedNeverEmpty == Len(seed) > 0 /\ Trim(seed) = seed

-----------------------------------------------------------------------------
(* The frame loop and its cleanup *)

\* a step in which a render callback runs
FrameStep == now' # now \/ frames' # frames

\* C14: once the cleanup of a frame-loop instance has run, no render
\* callback of that instance runs again: the callbacks still requested, and
\* so every callback that runs, belong to the instance in place of a mounted
\* App, at whatever point between frames the cleanup ran; and running the
\* cleanup once more changes nothing.
C14_CancelledLoopStaysSilent ==
  /\ [](\A c \in animation.requested :
           animation.mounted /\ c.loop = animation.loop)
  /\ [][FrameStep => animation.mounted /\ scene'.loop = animation.loop]_vars
  /\ [][~animation.mounted => animation' = animation /\ scene' = scene]_vars

\* the loop was started anew, its second instance drew frames, then App was
\* unmounted part-way through the run and the cleanup called once more
C14_CleanedUpTwice ==
  /\ ~animation.mounted
  /\ animation.loop = 1
  /\ scene.loop = 1
  /\ frames = LateInput
  /\ inputs.total = MaxInputs

\* the time since the frame before, capped at 0.05 s
CappedStep(last, timestamp) ==
  LET passed == IF last = <<>> THEN 0 ELSE timestamp - last[1]
  IN  IF passed > MAX_STEP THEN MAX_STEP ELSE passed

\* C15: every frame callback, as one step, caps the elapsed time at 0.05 s,
\* advances the boat by updateBoat with that time (never more than 0.05 s),
\* advances the waves by updateWaves with it, and then draws the scene from
\* the boat and the waves just updated, with the islands.
C15_FrameUpdatesThenDraws ==
  [][FrameStep =>
       \E c \in animation.requested :
          LET capped == CappedStep(c.lastTimestamp, now')
          IN  /\ capped <= MAX_STEP
              /\ boat' = updateBoat(boat, pressedKeys, capped, islands)
              /\ wavesRef' = updateWaves(wavesRef, capped)
              /\ scene'.boat = boat'
              /\ scene'.waves = wavesRef'
              /\ islands' = islands]_vars

\* frames 60 ms apart have been drawn, each from a step of 50 ms, with the
\* boat under way
C15_CappedFramesDrawn ==
  /\ interval > MAX_STEP
  /\ frames >= 2
  /\ boat.speed > 0
  /\ scene.boat = boat
  /\ scene.waves = wavesRef

-----------------------------------------------------------------------------
(* The telemetry shown *)

\* C16: the heading shown is an integer h with 0 <= h < 360, whatever the
\* heading of the boat (negative, or beyond a full turn).
C16_HeadingBelow360 == hud.headingDegrees \in 0..359

StatusLabels ==
  {"Dropping anchor", "At anchor", "Weighing anchor", "Under way", "Idle"}

\* C17: the status shown is one of the five labels and is settled by the
\* anchor state and the speed alone: 'Dropping anchor', 'At anchor' and
\* 'Weighing anchor' exactly in the anchor states dropping, anchored and
\* weighing; with the anchor stowed, 'Under way' exactly when the speed is
\* above 10, and 'Idle' otherwise.
C17_StatusFollowsAnchorAndSpeed ==
  [][/\ hud'.shipStatus \in StatusLabels
     /\ hud'.shipStatus = "Dropping anchor" <=> boat'.anchorState = "dropping"
     /\ hud'.shipStatus = "At anchor" <=> boat'.anchorState = "anchored"
     /\ hud'.shipStatus = "Weighing anchor" <=> boat'.anchorState = "weighing"
     /\ hud'.shipStatus = "Under way" <=>
          boat'.anchorState = "stowed" /\ boat'.speed > UNDER_WAY_SPEED
     /\ hud'.shipStatus = "Idle" <=>
          boat'.anchorState = "stowed" /\ boat'.speed <= UNDER_WAY_SPEED]_vars

\* a boat with the anchor stowed, at a speed of exactly 10, is shown as idle
C17_IdleAtTen ==
  /\ hud = Telemetry(boat)
  /\ boat.anchorState = "stowed"
  /\ boat.speed = UNDER_WAY_SPEED
  /\ boat.heading = 0
  /\ hud.shipStatus = "Idle"

-----------------------------------------------------------------------------
(* The anchor from one step to the next *)

\* the anchor state that follows in the cycle
AnchorSuccessor(anchorState) ==
  CASE anchorState = "stowed" -> "dropping"
    [] anchorState = "dropping" -> "anchored"
    [] anchorState = "anchored" -> "weighing"
    [] anchorState = "weighing" -> "stowed"

\* C19: every updateBoat step leaves the anchor state as it was or moves it
\* to the next state of the cycle stowed, dropping, anchored, weighing,
\* stowed: no other transition, and never two transitions in one step.
C19_AnchorOneStepAtATime ==
  [][FrameStep =>
       boat'.anchorState \in {boat.anchorState, AnchorSuccessor(boat.anchorState)}]_vars

\* the anchor has gone round the cycle and its weighing is half done
C19_HalfWeighed ==
  /\ boat.anchorState = "weighing"
  /\ boat.anchorProgress >= ANCHOR_TIME \div 2
  /\ frames > LateInput

\* C20: a step that ends with the anchor dropping, anchored or weighing does
\* not raise the speed, and a step that ends with it anchored or weighing
\* ends at speed 0.
C20_AnchorHoldsSpeedDown ==
  [][FrameStep =>
       /\ AnchorBlocking(boat'.anchorState) => boat'.speed <= boat.speed
       /\ boat'.anchorState \in {"anchored", "weighing"} => boat'.speed = 0]_vars

\* the anchor is down with the sail up and the forward command held
C20_AnchoredUnderSail ==
  /\ boat.anchorState \in {"anchored", "weighing"}
  /\ boat.sailLevel > 0
  /\ "w" \in pressedKeys
  /\ boat.speed = 0

-----------------------------------------------------------------------------
(* Steering *)

\* exactly one of the commands left and right is held
SteeringHeld == Commands(pressedKeys).left # Commands(pressedKeys).right

\* C21: a step that ends with the anchor anchored or weighing leaves the
\* heading as it was, whatever of left and right is held, so steering does
\* nothing from the step that starts the weighing up to the one that ends
\* it; a step of some length that ends with the anchor stowed or dropping,
\* with left or right held, changes the heading.
C21_NoSteeringAtAnchor ==
  [][FrameStep =>
       /\ boat'.anchorState \in {"anchored", "weighing"} => boat'.heading = boat.heading
       /\ (boat'.anchorState \in {"stowed", "dropping"} /\ SteeringHeld /\ dt > 0)
            => boat'.heading # boat.heading]_vars

\* the anchor is being weighed with left held, and the boat still heads
\* where it headed at the start
C21_HelmHeldWhileWeighing ==
  /\ boat.anchorState = "weighing"
  /\ boat.anchorProgress > 0
  /\ "a" \in pressedKeys
  /\ boat.heading = createInitialBoatState.heading

-----------------------------------------------------------------------------
(* The position *)

-----------------------------------------------------------------------------
(* The idle timer *)

\* the boat is moving as a step begins
IsMoving == boat.speed > MOVING_SPEED_THRESHOLD

\* C23: the anchor goes from stowed to dropping only in a step that finds
\* the boat idle (not moving, no movement command held) and brings the idle
\* timer to 3 s; the timer grows only in such idle steps, by the time of the
\* step, and every step in which the boat is moving or a movement command
\* is held puts it back to 0: the 3 s are unbroken.
C23_DropsAfterUnbrokenIdle ==
  [][FrameStep =>
       /\ (boat.anchorState = "stowed" /\ boat'.anchorState = "dropping")
            => (boat'.idleTime >= IDLE_LIMIT /\ ~IsMoving /\ ~MoveHeld)
       /\ (IsMoving \/ MoveHeld) => boat'.idleTime = 0
       /\ boat'.idleTime > boat.idleTime
            => (boat'.idleTime = boat.idleTime + dt /\ ~IsMoving /\ ~MoveHeld)]_vars

\* the anchor has just been let go, late in the run: the timer had been
\* started anew and then reached 3 s
C23_LetGoLate ==
  /\ boat.anchorState = "dropping"
  /\ boat.idleTime >= IDLE_LIMIT
  /\ boat.anchorProgress <= MAX_STEP
  /\ frames > LateInput

-----------------------------------------------------------------------------
(* The boat at rest *)

\* a sail so low that the speed it asks for is below the speed that counts
\* as moving
SailAtRest(sail) == DesiredSpeedAnchorOrNot([sailLevel |-> sail]) < MOVING_SPEED_THRESHOLD

\* C24: a step that begins with no movement command held, the speed below
\* the speed that counts as moving, and the sail (its target and its level)
\* below the sail that asks for such a speed, ends with the speed and the
\* sail target at exactly 0.
C24_RestIsExact ==
  [][(/\ FrameStep
      /\ ~MoveHeld
      /\ boat.speed < MOVING_SPEED_THRESHOLD
      /\ SailAtRest(boat.sailTarget)
      /\ SailAtRest(boat.sailLevel))
       => (boat'.speed = 0 /\ boat'.sailTarget = 0)]_vars

-----------------------------------------------------------------------------
(* The coastline *)

MIN_SEGMENTS == 46

MAX_SEGMENTS == 65

\* C25: the coastline of every island has between 46 and 65 points (no more
\* than 65 while it is being made), the angles of its points increase
\* strictly with the index and lie in [0, 2*pi), and the radius of every
\* point lies between 0.48 and 1.48 times the base radius of the island,
\* for seeded draws and for constant ones.
C25_CoastlineWellFormed ==
  /\ \A n \in 1..Len(seedData.islands) :
        Len(seedData.islands[n].coastline) \in MIN_SEGMENTS..MAX_SEGMENTS
  /\ \A n \in 1..Len(IslandsInTheMaking(seedData)) :
        LET island == IslandsInTheMaking(seedData)[n]
        IN  /\ Len(island.coastline) <= MAX_SEGMENTS
            /\ \A k \in 1..Len(island.coastline) :
                  /\ island.coastline[k].angle \in 0..(TWO_PI - 1)
                  /\ k > 1 => island.coastline[k - 1].angle < island.coastline[k].angle
                  /\ island.coastline[k].radius >= (island.radius * MIN_MULTIPLIER) \div 1000
                  /\ island.coastline[k].radius <= (island.radius * MAX_MULTIPLIER) \div 1000

\* an island is finished whose coastline has a point held at 1.48 times the
\* base radius
C25_PointAtTheBand ==
  \E n \in 1..Len(seedData.islands) : \E k \in 1..Len(seedData.islands[n].coastline) :
     seedData.islands[n].coastline[k].radius
       = (seedData.islands[n].radius * MAX_MULTIPLIER) \div 1000

-----------------------------------------------------------------------------
(* The boat left alone *)

\* C26: from the initial boat state, with no command ever held, whatever
\* the times between the frames and whichever islands were generated, the
\* anchor stays stowed: the boat gathers way under its initial sail and the
\* idle timer never reaches 3 s.
C26_LeftAloneStaysStowed ==
  /\ boat.anchorState = "stowed"
  /\ boat.idleTime < IDLE_LIMIT

\* the run is over, its first frames having come at once and then apart:
\* the boat is under way and the idle timer at 0
C26_UnderWayAtTheEnd ==
  /\ frames = MaxFrames
  /\ now = interval * (MaxFrames - 1)
  /\ boat.speed > MOVING_SPEED_THRESHOLD
  /\ boat.idleTime = 0
  /\ boat.anchorState = "stowed"

\* C27: whatever the seed, the pose the boat starts in (the centre of the
\* map, heading -pi/2) collides with none of the islands generated for it.
C27_SpawnIsClear == Generated => ~detectCollision(createInitialBoatState, islands)

-----------------------------------------------------------------------------
(* The frame loop started anew *)

\* a step in which the frame-loop effect runs again
RestartStep == animation'.loop # animation.loop

\* C29: however often the frame loop is started anew (the window resized,
\* the mini-map toggled, the seed changed), at most one frame callback is
\* pending at any time; the first frame of each instance of the loop is a
\* step of elapsed time 0; and a restart that is no change of seed leaves
\* the boat state as it was.
C29_OneLoopAtATime ==
  /\ [](Cardinality(animation.requested) <= 1)
  /\ [][FrameStep =>
          \A c \in animation.requested :
             c.loop # scene.loop => boat' = updateBoat(boat, pressedKeys, 0, islands)]_vars
  /\ [][(RestartStep /\ seed' = seed) => boat' = boat]_vars

\* the loop has been started anew three times and its last instance has
\* drawn frames, one callback pending
C29_FourthLoopRuns ==
  /\ animation.loop = MaxInputs
  /\ scene.loop = animation.loop
  /\ Cardinality(animation.requested) = 1
  /\ frames > LateInput + 1

-----------------------------------------------------------------------------
(* boatRef and boatState *)

\* the value of the boat state set last
SetLast ==
  IF boatState.updates = <<>> THEN boatState.value
  ELSE boatState.updates[Len(boatState.updates)]

-----------------------------------------------------------------------------
(* Copying the seed *)

\* C30: however the clicks on Copy fall, also while a clipboard write is
\* pending, at most one timeout that clears the copy status is pending, and
\* the status shown last is cleared no sooner than 2000 ms after it was
\* shown; a clipboard write that fails, or no clipboard, gives the status
\* 'Copy unavailable'.
C30_OneClearingTimeout ==
  /\ [](Cardinality(copy.timeouts) <= 1)
  /\ [][(copy.status # "" /\ copy'.status = "")
          => copy.clock >= copy.shownAt + COPY_STATUS_TIME]_vars
  /\ [](copy.status \in {"", "Seed copied!", "Copy unavailable"})
====
